---- MODULE Spec2Model ----
(***************************************************************************)
(* A model of the Guitar Pro decoder of knasan/parsegp: the cursor over    *)
(* the file buffer (gp5parser.go), the string decoders built on it, the    *)
(* record decoders (channels, measures, beats, notes), the full header     *)
(* decoder NewParser and the lightweight header path of gpfile.go.         *)
(*                                                                         *)
(* Conventions.  A byte is a number in 0..255.  A Go string or []byte is a *)
(* sequence of bytes.  Go's FileBuffer[i] is FileBuffer[i+1] here.  A      *)
(* decoder that advances the cursor is an operator from (buf, pos) to a    *)
(* record [st, v, pos]: st is "ok", "err" (the Go error return) or "panic" *)
(* (a Go run-time panic), v the returned value and pos the cursor after    *)
(* the call.                                                               *)
(***************************************************************************)
EXTENDS Integers, Sequences, FiniteSets, TLC

VARIABLES
    FileBuffer,      \* Parser.FileBuffer
    BufferPosition,  \* Parser.BufferPosition
    VersionIndex,    \* Parser.VersionIndex
    Channels,        \* Parser.Channels
    Tracks,          \* the tracks handed to readChannel / readMeasure / readNote
    last             \* the last operation: its name, inputs and results

vars == <<FileBuffer, BufferPosition, VersionIndex, Channels, Tracks, last>>

----------------------------------------------------------------------------
(* Bounds of the model. *)

\* longest buffer of the cursor specification
MaxLen == 4
\* largest count handed to skip by the Skip action
MaxSkip == 2
\* how far past the end of the buffer the cursor may stand for a skipping
\* operation to be taken again
MaxPast == 1
\* largest size handed to readString / readStringByte by the actions
MaxSize == 2

\* the byte values the buffers of the cursor specification are made of
ByteVals == {0, 1, 2, 255}

Byte == 0..255

\* the one element of a singleton set; The({e(x) : x \in {v}}) is e(v) with v
\* computed once
The(S) == CHOOSE y \in S : TRUE

BoundedSeq(S, n) == UNION {[1..k -> S] : k \in 0..n}

----------------------------------------------------------------------------
(* Machine arithmetic. *)

RECURSIVE OrBits(_, _, _)
\* bitwise OR of the low n bits of a and b
OrBits(a, b, n) ==
    IF n = 0 THEN 0
    ELSE (IF a % 2 = 1 \/ b % 2 = 1 THEN 1 ELSE 0)
         + 2 * OrBits(a \div 2, b \div 2, n - 1)

RECURSIVE AndBits(_, _, _)
\* bitwise AND of the low n bits of a and b
AndBits(a, b, n) ==
    IF n = 0 THEN 0
    ELSE (IF a % 2 = 1 /\ b % 2 = 1 THEN 1 ELSE 0)
         + 2 * AndBits(a \div 2, b \div 2, n - 1)

\* b & m for bytes
And8(b, m) == AndBits(b, m, 8)

\* (flags & bit) != 0
HasBit(flags, bit) == And8(flags, bit) # 0

\* A uint32 is kept as its four 8-bit digits, least significant first (TLC's
\* integers are 32-bit signed).  uint32(b) for a byte b:
U32(b) == <<b, 0, 0, 0>>

\* x & 0xFF on a uint32
U32And255(x) == <<And8(x[1], 255), 0, 0, 0>>

\* x << (8*k) on a uint32, k in 0..3
U32Shl8(x, k) == [i \in 1..4 |-> IF i > k THEN x[i - k] ELSE 0]

\* x | y on uint32
U32Or(x, y) == [i \in 1..4 |-> OrBits(x[i], y[i], 8)]

\* int32(x) for a uint32 x: the two's-complement reading
Int32OfU32(x) ==
    IF x[4] >= 128
    THEN ((16777216 * (x[4] - 256)) + 65536 * x[3]) + 256 * x[2] + x[1]
    ELSE 16777216 * x[4] + 65536 * x[3] + 256 * x[2] + x[1]

\* byte arithmetic wraps
WrapByte(n) == n % 256

----------------------------------------------------------------------------
(* The cursor: gp5parser.go, readInt .. skip. *)

Ok(v, pos) == [st |-> "ok", v |-> v, pos |-> pos]
Err(v, pos) == [st |-> "err", v |-> v, pos |-> pos]
Panic(pos) == [st |-> "panic", v |-> 0, pos |-> pos]

\* buf[lo:hi] of Go (0-based, hi exclusive), for 0 <= lo <= hi <= len
Slice(buf, lo, hi) == [i \in 1..(hi - lo) |-> buf[lo + i]]

\* an index expression FileBuffer[i] of Go is in range
InRange(buf, i) == i >= 0 /\ i < Len(buf)

\* readInt that takes the four bytes most significant first
readInt_BigEndian(buf, pos) ==
    IF pos + 4 > Len(buf) THEN Err(0, pos)
    ELSE IF ~(InRange(buf, pos) /\ InRange(buf, pos + 3)) THEN Panic(pos)
    ELSE Ok(Int32OfU32(
                U32Or(U32Or(U32Or(U32Shl8(U32And255(U32(buf[pos + 1])), 3),
                                  U32Shl8(U32And255(U32(buf[pos + 2])), 2)),
                            U32Shl8(U32And255(U32(buf[pos + 3])), 1)),
                      U32And255(U32(buf[pos + 4])))),
            pos + 4)

readInt(buf, pos) ==
    IF pos + 4 > Len(buf) THEN Err(0, pos)
    ELSE IF ~(InRange(buf, pos) /\ InRange(buf, pos + 3)) THEN Panic(pos)
    ELSE Ok(Int32OfU32(
                U32Or(U32Or(U32Or(U32Shl8(U32And255(U32(buf[pos + 4])), 3),
                                  U32Shl8(U32And255(U32(buf[pos + 3])), 2)),
                            U32Shl8(U32And255(U32(buf[pos + 2])), 1)),
                      U32And255(U32(buf[pos + 1])))),
            pos + 4)

\* readByte with the bounds check off by one
readByte_OffByOne(buf, pos) ==
    IF pos > Len(buf) THEN Err(0, pos)
    ELSE IF ~InRange(buf, pos) THEN Panic(pos)
    ELSE Ok(buf[pos + 1], pos + 1)

readByte(buf, pos) ==
    IF pos >= Len(buf) THEN Err(0, pos)
    ELSE IF ~InRange(buf, pos) THEN Panic(pos)
    ELSE Ok(buf[pos + 1], pos + 1)

readUnsignedByte(buf, pos) ==
    IF pos >= Len(buf) THEN Err(0, pos)
    ELSE IF ~InRange(buf, pos) THEN Panic(pos)
    ELSE Ok(buf[pos + 1], pos + 1)

readString(buf, pos, size) ==
    IF pos + size > Len(buf) THEN Err(<<>>, pos)
    ELSE IF pos < 0 \/ pos + size < pos THEN Panic(pos)
    ELSE Ok(Slice(buf, pos, pos + size), pos + size)

\* readByteString that counts the length byte into the advance a second time
readByteString_OverAdvance(buf, pos, size, len) ==
    LET bytesToRead == IF size <= 0 THEN len ELSE size IN
    IF pos + bytesToRead > Len(buf) THEN Err(<<>>, pos)
    ELSE Ok(SubSeq(Slice(buf, pos, pos + bytesToRead), 1,
                   IF len >= 0 /\ len <= bytesToRead THEN len ELSE bytesToRead),
            pos + bytesToRead + 1)

readByteString(buf, pos, size, len) ==
    LET bytesToRead == IF size <= 0 THEN len ELSE size IN
    IF pos + bytesToRead > Len(buf) THEN Err(<<>>, pos)
    ELSE IF pos < 0 \/ pos + bytesToRead < pos THEN Panic(pos)
    ELSE LET bytes == Slice(buf, pos, pos + bytesToRead)
             actualLength == IF len >= 0 /\ len <= bytesToRead
                             THEN len ELSE bytesToRead
         IN  Ok(SubSeq(bytes, 1, actualLength), pos + bytesToRead)

readStringByte(buf, pos, size) ==
    LET num == readUnsignedByte(buf, pos) IN
    IF num.st # "ok" THEN [num EXCEPT !.v = <<>>]
    ELSE readByteString(buf, num.pos, size, num.v)

\* readStringByteSizeOfInteger that hands the size byte on undiminished
readStringByteSizeOfInteger_NoDecrement(buf, pos) ==
    LET num == readUnsignedByte(buf, pos) IN
    IF num.st # "ok" THEN [num EXCEPT !.v = <<>>]
    ELSE readStringByte(buf, num.pos, num.v)

readStringByteSizeOfInteger(buf, pos) ==
    LET num == readUnsignedByte(buf, pos) IN
    IF num.st # "ok" THEN [num EXCEPT !.v = <<>>]
    ELSE readStringByte(buf, num.pos, num.v - 1)

readStringInteger(buf, pos) ==
    LET num == readInt(buf, pos) IN
    IF num.st # "ok" THEN [num EXCEPT !.v = <<>>]
    ELSE readString(buf, num.pos, num.v)

skip(pos, n) == pos + n

----------------------------------------------------------------------------
(* Small record decoders: page setup, key signature, channel table. *)

RECURSIVE readPageSetupLoop(_, _, _)
\* the loop of readPageSetup, i of its 11 rounds still to run
readPageSetupLoop(buf, pos, i) ==
    IF i = 0 THEN pos
    ELSE readPageSetupLoop(buf, readStringByte(buf, skip(pos, 4), 0).pos, i - 1)

\* the cursor after readPageSetup
readPageSetup(buf, pos, vi) ==
    readPageSetupLoop(buf, IF vi > 0 THEN skip(pos, 49) ELSE skip(pos, 30), 11)

\* readKeySignature that subtracts the 7
readKeySignature_Minus(buf, pos) ==
    LET keySignature == readByte(buf, pos) IN
    IF keySignature.st # "ok"
    THEN [v |-> WrapByte(keySignature.v - 1 + 256), pos |-> keySignature.pos]
    ELSE [v |-> WrapByte(keySignature.v - 7 + 256), pos |-> keySignature.pos]

readKeySignature(buf, pos) ==
    LET keySignature == readByte(buf, pos) IN
    IF keySignature.st # "ok"
    THEN [v |-> WrapByte(keySignature.v - 1 + 256), pos |-> keySignature.pos]
    ELSE [v |-> WrapByte(7 + keySignature.v), pos |-> keySignature.pos]

\* readChannelRecord that skips one byte after a record
readChannelRecord_ShortSkip(buf, pos, i) ==
    LET program == readInt(buf, pos)
        volume  == readByte(buf, program.pos)
        balance == readByte(buf, volume.pos)
        chorus  == readByte(buf, balance.pos)
        reverb  == readByte(buf, chorus.pos)
        pan     == readByte(buf, reverb.pos)
        phaser  == readByte(buf, pan.pos)
        tremolo == readByte(buf, phaser.pos)
    IN  [channel |->
            [Program |-> IF program.v < 0 THEN 0 ELSE program.v,
             Volume |-> volume.v, Balance |-> balance.v, Chorus |-> chorus.v,
             Reverb |-> reverb.v, Pan |-> pan.v, Phaser |-> phaser.v,
             Tremolo |-> tremolo.v,
             Bank |-> IF i = 9 THEN "default percussion bank" ELSE "default bank",
             IsPercussionChannel |-> (i = 9),
             ID |-> 0, Name |-> "", Parameters |-> <<>>],
         pos |-> skip(tremolo.pos, 1)]

\* readChannelRecord that keeps a negative program number
readChannelRecord_NoClamp(buf, pos, i) ==
    LET program == readInt(buf, pos)
        volume  == readByte(buf, program.pos)
        balance == readByte(buf, volume.pos)
        chorus  == readByte(buf, balance.pos)
        reverb  == readByte(buf, chorus.pos)
        pan     == readByte(buf, reverb.pos)
        phaser  == readByte(buf, pan.pos)
        tremolo == readByte(buf, phaser.pos)
    IN  [channel |->
            [Program |-> program.v,
             Volume |-> volume.v, Balance |-> balance.v, Chorus |-> chorus.v,
             Reverb |-> reverb.v, Pan |-> pan.v, Phaser |-> phaser.v,
             Tremolo |-> tremolo.v,
             Bank |-> IF i = 9 THEN "default percussion bank" ELSE "default bank",
             IsPercussionChannel |-> (i = 9),
             ID |-> 0, Name |-> "", Parameters |-> <<>>],
         pos |-> skip(tremolo.pos, 2)]

\* one round of the loop of readChannels: the channel read and the cursor
readChannelRecord(buf, pos, i) ==
    LET program == readInt(buf, pos)
        volume  == readByte(buf, program.pos)
        balance == readByte(buf, volume.pos)
        chorus  == readByte(buf, balance.pos)
        reverb  == readByte(buf, chorus.pos)
        pan     == readByte(buf, reverb.pos)
        phaser  == readByte(buf, pan.pos)
        tremolo == readByte(buf, phaser.pos)
    IN  [channel |->
            [Program |-> IF program.v < 0 THEN 0 ELSE program.v,
             Volume |-> volume.v, Balance |-> balance.v, Chorus |-> chorus.v,
             Reverb |-> reverb.v, Pan |-> pan.v, Phaser |-> phaser.v,
             Tremolo |-> tremolo.v,
             Bank |-> IF i = 9 THEN "default percussion bank" ELSE "default bank",
             IsPercussionChannel |-> (i = 9),
             ID |-> 0, Name |-> "", Parameters |-> <<>>],
         pos |-> skip(tremolo.pos, 2)]

RECURSIVE readChannelsLoop(_, _, _, _)
\* rounds lo .. hi-1 of the loop of readChannels from the state st (the
\* channels so far and the cursor); the rounds run in order, first half first
readChannelsLoop(buf, st, lo, hi) ==
    IF hi - lo = 1
    THEN The({[v |-> Append(st.v, r.channel), pos |-> r.pos] :
                r \in {readChannelRecord(buf, st.pos, lo)}})
    ELSE The({readChannelsLoop(buf, half, (lo + hi) \div 2, hi) :
                half \in {readChannelsLoop(buf, st, lo, (lo + hi) \div 2)}})

readChannels(buf, pos) ==
    The({readChannelsLoop(buf, st, 0, 64) : st \in {[v |-> <<>>, pos |-> pos]}})

----------------------------------------------------------------------------
(* The cursor specification: any sequence of cursor operations on any      *)
(* short buffer.                                                           *)

NoOp == [op |-> "none", pre |-> 0, arg |-> 0, st |-> "ok", v |-> 0]

Done(op, pre, arg, r) == [op |-> op, pre |-> pre, arg |-> arg, st |-> r.st, v |-> r.v]

Init ==
    /\ FileBuffer \in BoundedSeq(ByteVals, MaxLen)
    /\ BufferPosition = 0
    /\ VersionIndex = 0
    /\ Channels = <<>>
    /\ Tracks = <<>>
    /\ last = NoOp

\* a Go panic ends the program
Running == last.st # "panic"

\* the cursor is near enough to the buffer for another skipping operation
Near == BufferPosition <= Len(FileBuffer) + MaxPast

\* a cursor operation with result res was made
Cursor(op, arg, res) ==
    /\ Running
    /\ \E r \in {res} :
          /\ BufferPosition' = r.pos
          /\ last' = Done(op, BufferPosition, arg, r)
    /\ UNCHANGED <<FileBuffer, VersionIndex, Channels, Tracks>>

ReadInt == Cursor("readInt", 0, readInt(FileBuffer, BufferPosition))

ReadByte == Cursor("readByte", 0, readByte(FileBuffer, BufferPosition))

ReadUnsignedByte ==
    Cursor("readUnsignedByte", 0, readUnsignedByte(FileBuffer, BufferPosition))

ReadString ==
    \E size \in 0..MaxSize :
        Cursor("readString", size, readString(FileBuffer, BufferPosition, size))

ReadStringByte ==
    \E size \in -1..MaxSize :
        Cursor("readStringByte", size, readStringByte(FileBuffer, BufferPosition, size))

ReadStringByteSizeOfInteger ==
    Cursor("readStringByteSizeOfInteger", 0,
           readStringByteSizeOfInteger(FileBuffer, BufferPosition))

ReadStringInteger ==
    Cursor("readStringInteger", 0, readStringInteger(FileBuffer, BufferPosition))

Skip ==
    \E n \in 1..MaxSkip :
        /\ Near
        /\ Cursor("skip", n, Ok(0, skip(BufferPosition, n)))

ReadKeySignature ==
    \E r \in {readKeySignature(FileBuffer, BufferPosition)} :
        Cursor("readKeySignature", 0, Ok(r.v, r.pos))

ReadPageSetup ==
    /\ Near
    /\ Cursor("readPageSetup", VersionIndex,
              Ok(0, readPageSetup(FileBuffer, BufferPosition, VersionIndex)))

ReadChannels ==
    /\ Near
    /\ Running
    /\ \E r \in {readChannels(FileBuffer, BufferPosition)} :
          /\ BufferPosition' = r.pos
          /\ Channels' = r.v
          /\ last' = Done("readChannels", BufferPosition, 0, Ok(0, r.pos))
    /\ UNCHANGED <<FileBuffer, VersionIndex, Tracks>>

Next ==
    \/ ReadInt
    \/ ReadByte
    \/ ReadUnsignedByte
    \/ ReadString
    \/ ReadStringByte
    \/ ReadStringByteSizeOfInteger
    \/ ReadStringInteger
    \/ Skip
    \/ ReadKeySignature
    \/ ReadPageSetup

Spec == Init /\ [][Next]_vars

----------------------------------------------------------------------------
(* Claims about the cursor. *)

StringReads == {"readStringByte", "readStringByteSizeOfInteger", "readStringInteger"}

\* C8 (as claimed): whenever readStringByte, readStringByteSizeOfInteger or
\* readStringInteger returns an error, BufferPosition is what it was before
\* the call.
C8_StringReadsAllOrNothing ==
    (last.op \in StringReads /\ last.st = "err") => BufferPosition = last.pre

\* the width of a primitive read
Width(op, arg) == IF op = "readInt" THEN 4 ELSE IF op = "readString" THEN arg ELSE 1

\* C9: readInt, readByte, readUnsignedByte and readString(n), n >= 0, succeed
\* exactly when the 4, 1, 1 or n bytes at the offset lie inside the buffer, and
\* then advance the offset by that many bytes; otherwise they return an error
\* (no panic: no byte outside the buffer is accessed) and leave the offset
\* unchanged.  This holds for an offset past the end as well.
C9_PrimitiveReadsExact ==
    last.op \in {"readInt", "readByte", "readUnsignedByte", "readString"} =>
        LET n == Width(last.op, last.arg) IN
        /\ (last.st = "ok") <=> (last.pre + n <= Len(FileBuffer))
        /\ last.st = "ok" => BufferPosition = last.pre + n
        /\ last.st # "ok" => (last.st = "err" /\ BufferPosition = last.pre)

\* C9 witness: a primitive read refused at an offset skip moved past the end
C9_Witness ==
    /\ last.op = "readInt"
    /\ last.pre > Len(FileBuffer)
    /\ Len(FileBuffer) >= 4
    /\ last.st = "err"

\* C10 (as claimed): the cursor never stands past the end of the buffer.
C10_OffsetWithinBuffer == BufferPosition <= Len(FileBuffer)

ReadOps ==
    {"readInt", "readByte", "readUnsignedByte", "readString", "readKeySignature"}
    \cup StringReads

\* C10 (amended): a primitive read or a string read that starts inside the
\* buffer leaves the cursor inside the buffer; only skip, and the decoders
\* that call it, move the cursor past the end.
C10_ReadsStayWithinBuffer ==
    (last.op \in ReadOps /\ last.pre <= Len(FileBuffer)) =>
        BufferPosition <= Len(FileBuffer)

\* C10 witness: a string read that consumed the buffer up to its very end
C10_Witness ==
    /\ last.op = "readStringByteSizeOfInteger"
    /\ last.st = "ok"
    /\ last.pre < BufferPosition
    /\ BufferPosition = Len(FileBuffer)

----------------------------------------------------------------------------
(* Channel binding: readChannel. *)

\* the least int32
MinInt32 == (-2147483647) - 1

\* x - 1 on int32
Dec32(x) == IF x = MinInt32 THEN 2147483647 ELSE x - 1

Digits == <<"0", "1", "2", "3", "4", "5", "6", "7", "8", "9">>

RECURSIVE ItoaNat(_)
ItoaNat(n) ==
    IF n < 10 THEN <<Digits[n + 1]>>
    ELSE ItoaNat(n \div 10) \o <<Digits[(n % 10) + 1]>>

\* fmt.Sprintf("%d", n) for an int32 n, as its sequence of characters
Itoa(n) ==
    IF n >= 0 THEN ItoaNat(n)
    ELSE IF n = MinInt32
         THEN <<"-", "2", "1", "4", "7", "4", "8", "3", "6", "4", "8">>
         ELSE <<"-">> \o ItoaNat(-n)

\* Track{}: the zero value of a track
NewTrack == [ChannelID |-> 0, GuitarStrings |-> <<>>, Measures |-> <<>>]

\* readChannel that gives a bound channel the number of its slot as its ID
readChannel_SlotId(buf, pos, channels, track) ==
    LET r1 == readInt(buf, pos)
        gmChannel1 == Dec32(r1.v)
        r2 == readInt(buf, r1.pos)
        gmChannel2 == Dec32(r2.v)
    IN
    IF r1.st # "ok"
    THEN [pos |-> r1.pos, channels |-> channels, track |-> track,
          read |-> FALSE, primary |-> 0]
    ELSE IF r2.st # "ok"
    THEN [pos |-> r2.pos, channels |-> channels, track |-> track,
          read |-> FALSE, primary |-> 0]
    ELSE IF gmChannel1 >= 0 /\ gmChannel1 < Len(channels)
    THEN LET gmChannel1Param == [Key |-> "gm channel 1", Value |-> Itoa(gmChannel1)]
             gmChannel2Value == IF gmChannel1 = 9 THEN gmChannel1 ELSE gmChannel2
             gmChannel2Param == [Key |-> "gm channel 2", Value |-> Itoa(gmChannel2Value)]
             channel == channels[gmChannel1 + 1]
         IN  IF channel.ID = 0
             THEN LET bound == [channel EXCEPT
                                  !.ID = gmChannel1 + 1,
                                  !.Name = "TODO",
                                  !.Parameters = channel.Parameters
                                      \o <<gmChannel1Param, gmChannel2Param>>]
                  IN  [pos |-> r2.pos,
                       channels |-> Append(channels, bound),
                       track |-> [track EXCEPT !.ChannelID = bound.ID],
                       read |-> TRUE, primary |-> gmChannel1]
             ELSE [pos |-> r2.pos,
                   channels |-> channels,
                   track |-> [track EXCEPT !.ChannelID = channel.ID],
                   read |-> TRUE, primary |-> gmChannel1]
    ELSE [pos |-> r2.pos, channels |-> channels, track |-> track,
          read |-> TRUE, primary |-> gmChannel1]

\* readChannel(track) on parser state (buf, pos, channels): the cursor, the
\* channel list and the track after the call; read tells whether both GM
\* indices were read and primary is the decremented primary index then.
readChannel(buf, pos, channels, track) ==
    LET r1 == readInt(buf, pos)
        gmChannel1 == Dec32(r1.v)
        r2 == readInt(buf, r1.pos)
        gmChannel2 == Dec32(r2.v)
    IN
    IF r1.st # "ok"
    THEN [pos |-> r1.pos, channels |-> channels, track |-> track,
          read |-> FALSE, primary |-> 0]
    ELSE IF r2.st # "ok"
    THEN [pos |-> r2.pos, channels |-> channels, track |-> track,
          read |-> FALSE, primary |-> 0]
    ELSE IF gmChannel1 >= 0 /\ gmChannel1 < Len(channels)
    THEN LET gmChannel1Param == [Key |-> "gm channel 1", Value |-> Itoa(gmChannel1)]
             gmChannel2Value == IF gmChannel1 = 9 THEN gmChannel1 ELSE gmChannel2
             gmChannel2Param == [Key |-> "gm channel 2", Value |-> Itoa(gmChannel2Value)]
             channel == channels[gmChannel1 + 1]
         IN  IF channel.ID = 0
             THEN LET bound == [channel EXCEPT
                                  !.ID = Len(channels) + 1,
                                  !.Name = "TODO",
                                  !.Parameters = channel.Parameters
                                      \o <<gmChannel1Param, gmChannel2Param>>]
                  IN  [pos |-> r2.pos,
                       channels |-> Append(channels, bound),
                       track |-> [track EXCEPT !.ChannelID = bound.ID],
                       read |-> TRUE, primary |-> gmChannel1]
             ELSE [pos |-> r2.pos,
                   channels |-> channels,
                   track |-> [track EXCEPT !.ChannelID = channel.ID],
                   read |-> TRUE, primary |-> gmChannel1]
    ELSE [pos |-> r2.pos, channels |-> channels, track |-> track,
          read |-> TRUE, primary |-> gmChannel1]

----------------------------------------------------------------------------
(* The channel specification: a file holding the channel table and the GM  *)
(* indices of up to MaxTracks tracks; readChannels, then readChannel for   *)
(* one new track after the other.                                          *)

\* tracks bound in one run
MaxTracks == 2

\* the 4 bytes of an int32, least significant first
LE32(n) ==
    IF n >= 0
    THEN <<n % 256, (n \div 256) % 256, (n \div 65536) % 256, n \div 16777216>>
    ELSE LET m == (n + 2147483647) + 1
         IN  <<m % 256, (m \div 256) % 256, (m \div 65536) % 256,
               (m \div 16777216) + 128>>

\* a channel table of 64 records of 13 bytes, record i filled with (b + i) % 256
TableBytes(b) == [k \in 1..832 |-> (b + ((k - 1) \div 13)) % 256]

\* the raw primary GM numbers the files hold: unbound (0 and -5), slot 0,
\* the percussion slot 9, and 65 (the first slot past the table)
GmVals == {0, 1, 10, 65, -5}
\* the raw secondary GM numbers
Gm2Vals == {2}

RECURSIVE Flatten(_)
Flatten(ss) == IF ss = <<>> THEN <<>> ELSE Head(ss) \o Flatten(Tail(ss))

\* the GM index pairs of n tracks
GmPairs(n) == [1..n -> {LE32(a) \o LE32(b) : a \in GmVals, b \in Gm2Vals}]

InitChannel ==
    /\ \E b \in {0, 250}, n \in 0..MaxTracks, tail \in {<<>>, LE32(10)} :
          \E pairs \in GmPairs(n) :
              FileBuffer = TableBytes(b) \o Flatten(pairs) \o tail
    /\ BufferPosition = 0
    /\ VersionIndex = 0
    /\ Channels = <<>>
    /\ Tracks = <<>>
    /\ last = NoOp

\* p.Channels = p.readChannels(), first thing
LoadChannels ==
    /\ last.op = "none"
    /\ ReadChannels

\* track := Track{}; p.readChannel(&track); the track joins Tracks.  The track
\* keeps, beside its fields, the primary index the call decoded.
ReadChannel ==
    /\ last.op # "none"
    /\ Len(Tracks) < MaxTracks
    /\ \E r \in {readChannel(FileBuffer, BufferPosition, Channels, NewTrack)} :
          /\ BufferPosition' = r.pos
          /\ Channels' = r.channels
          /\ Tracks' = Append(Tracks, [track |-> r.track, read |-> r.read,
                                     primary |-> r.primary])
          /\ last' = Done("readChannel", BufferPosition, 0, Ok(0, r.pos))
    /\ UNCHANGED <<FileBuffer, VersionIndex>>

NextChannel ==
    \/ LoadChannels
    \/ ReadChannel

SpecChannel == InitChannel /\ [][NextChannel]_vars

\* the channels readChannel appended for table slot s
BoundFor(s) ==
    {k \in 1..Len(Channels) :
        /\ Channels[k].ID # 0
        /\ Channels[k].Parameters # <<>>
        /\ Channels[k].Parameters[1].Value = Itoa(s)}

\* C1 (as claimed): two tracks whose primary GM index names the same slot of
\* the channel table get the same ChannelID, one channel is appended for the
\* slot, and for slot 9 both recorded parameters read "9".
C1_ChannelBindingDedup ==
    \A i, j \in 1..Len(Tracks) :
        (/\ i < j
         /\ Tracks[i].read /\ Tracks[j].read
         /\ Tracks[i].primary \in 0..63
         /\ Tracks[i].primary = Tracks[j].primary)
        => /\ Tracks[i].track.ChannelID = Tracks[j].track.ChannelID
           /\ Cardinality(BoundFor(Tracks[i].primary)) = 1
           /\ Tracks[i].primary = 9 =>
                \A k \in BoundFor(9) :
                    /\ Channels[k].Parameters[1] = [Key |-> "gm channel 1", Value |-> <<"9">>]
                    /\ Channels[k].Parameters[2] = [Key |-> "gm channel 2", Value |-> <<"9">>]

----------------------------------------------------------------------------
(* Notes: readNote, the note effects and tied-note resolution.             *)

\* math.Round(float64(n) / d) for an int32 n and an odd d > 0 (no ties arise)
RoundDiv(n, d) == IF 2 * (n % d) > d THEN (n \div d) + 1 ELSE n \div d

\* TGVELOCITIES_MIN_VELOCITY + TGVELOCITIES_VELOCITY_INCREMENT * int(v)
\*   - TGVELOCITIES_VELOCITY_INCREMENT
Velocity(v) == 15 + (16 * v) - 16

\* Grace{}
ZeroGrace ==
    [Fret |-> 0, Dynamic |-> 0, Transition |-> "", Duration |-> 0,
     Dead |-> FALSE, OnBeat |-> FALSE]

\* NoteEffect{}; a Bend or TremoloBar is its list of points, a
\* TremoloPicking its Duration.Value, a Harmonic its Type
ZeroNoteEffect ==
    [TremoloBar |-> <<>>, FadeIn |-> FALSE, Vibrato |-> FALSE,
     Tapping |-> FALSE, Slapping |-> FALSE, Pop |-> FALSE,
     AccentuatedNote |-> FALSE, HeavyAccentuatedNote |-> FALSE,
     GhostNote |-> FALSE, DeadNote |-> FALSE, Slide |-> FALSE,
     Hammer |-> FALSE, LetRing |-> FALSE, PalmMute |-> FALSE,
     Staccato |-> FALSE, Bend |-> <<>>, Grace |-> ZeroGrace,
     TremoloPicking |-> "", Harmonic |-> "",
     Trill |-> [Fret |-> 0, Duration |-> ""]]

\* Note{}
ZeroNote ==
    [String |-> 0, Effect |-> ZeroNoteEffect, TiedNote |-> FALSE,
     Velocity |-> 0, Value |-> 0]

\* one round of the loop of readBend from st: the state of the loop ("err"
\* when a read failed: readBend then returns without storing the bend), the
\* cursor and the points so far
readBendPoint(buf, st) ==
    LET bendPosition == readInt(buf, st.pos)
        bendValue == readInt(buf, bendPosition.pos)
        pad == readByte(buf, bendValue.pos)
    IN  IF bendPosition.st # "ok"
        THEN [st |-> "err", pos |-> bendPosition.pos, points |-> st.points]
        ELSE IF bendValue.st # "ok"
        THEN [st |-> "err", pos |-> bendValue.pos, points |-> st.points]
        ELSE [st |-> "ok", pos |-> pad.pos,
              points |-> Append(st.points,
                                [Position |-> RoundDiv(bendPosition.v, 5),
                                 Value |-> RoundDiv(bendValue.v, 25)])]

RECURSIVE readBendPoints(_, _, _)
\* the loop of readBend with n rounds to go
readBendPoints(buf, from, n) ==
    The({IF n <= 0 \/ st.st # "ok" THEN st
         ELSE readBendPoints(buf, readBendPoint(buf, st), n - 1) :
            st \in {from}})

readBend(buf, pos, effect) ==
    LET numPoints == readInt(buf, skip(pos, 5)) IN
    IF numPoints.st # "ok" THEN [pos |-> numPoints.pos, effect |-> effect]
    ELSE The({[pos |-> loop.pos,
               effect |-> IF loop.st = "ok" /\ Len(loop.points) > 0
                          THEN [effect EXCEPT !.Bend = loop.points] ELSE effect] :
                 loop \in {readBendPoints(buf, [st |-> "ok", pos |-> numPoints.pos,
                                                points |-> <<>>],
                                          numPoints.v)}})

readGrace(buf, pos, effect) ==
    LET fret == readUnsignedByte(buf, pos)
        dynamic == readUnsignedByte(buf, fret.pos)
        transition == readByte(buf, dynamic.pos)
        duration == readUnsignedByte(buf, transition.pos)
        flags == readUnsignedByte(buf, duration.pos)
    IN  IF fret.st # "ok" THEN [pos |-> fret.pos, effect |-> effect]
        ELSE IF dynamic.st # "ok" THEN [pos |-> dynamic.pos, effect |-> effect]
        ELSE IF transition.st # "ok" THEN [pos |-> transition.pos, effect |-> effect]
        ELSE IF duration.st # "ok" THEN [pos |-> duration.pos, effect |-> effect]
        ELSE IF flags.st # "ok" THEN [pos |-> flags.pos, effect |-> effect]
        ELSE [pos |-> flags.pos,
              effect |-> [effect EXCEPT !.Grace =
                  [Fret |-> fret.v,
                   Dynamic |-> Velocity(dynamic.v),
                   Transition |-> CASE transition.v = 0 -> "none"
                                    [] transition.v = 1 -> "slide"
                                    [] transition.v = 2 -> "bend"
                                    [] transition.v = 3 -> "hammer"
                                    [] OTHER -> "",
                   Duration |-> duration.v,
                   Dead |-> HasBit(flags.v, 1),
                   OnBeat |-> HasBit(flags.v, 2)]]]

readTremoloPicking(buf, pos, effect) ==
    LET value == readUnsignedByte(buf, pos) IN
    IF value.st # "ok" THEN [pos |-> value.pos, effect |-> effect]
    ELSE [pos |-> value.pos,
          effect |-> CASE value.v = 1 -> [effect EXCEPT !.TremoloPicking = "eighth"]
                       [] value.v = 2 -> [effect EXCEPT !.TremoloPicking = "sixteenth"]
                       [] value.v = 3 -> [effect EXCEPT !.TremoloPicking = "thirty_second"]
                       [] OTHER -> effect]

readArtificialHarmonic(buf, pos, effect) ==
    LET typeVal == readByte(buf, pos) IN
    IF typeVal.st # "ok" THEN [pos |-> typeVal.pos, effect |-> effect]
    ELSE CASE typeVal.v = 1 ->
                [pos |-> typeVal.pos, effect |-> [effect EXCEPT !.Harmonic = "natural"]]
           [] typeVal.v = 2 ->
                [pos |-> skip(typeVal.pos, 3),
                 effect |-> [effect EXCEPT !.Harmonic = "artificial"]]
           [] typeVal.v = 3 ->
                [pos |-> skip(typeVal.pos, 1),
                 effect |-> [effect EXCEPT !.Harmonic = "tapped"]]
           [] typeVal.v = 4 ->
                [pos |-> typeVal.pos, effect |-> [effect EXCEPT !.Harmonic = "pinch"]]
           [] typeVal.v = 5 ->
                [pos |-> typeVal.pos, effect |-> [effect EXCEPT !.Harmonic = "semi"]]
           [] OTHER -> [pos |-> typeVal.pos, effect |-> effect]

\* readTrill that keeps the fret of a trill whose period is missing
readTrill_KeepsFret(buf, pos, effect) ==
    LET fret == readByte(buf, pos)
        period == readByte(buf, fret.pos)
    IN  IF fret.st # "ok" THEN [pos |-> fret.pos, effect |-> effect]
        ELSE [pos |-> period.pos,
              effect |-> [effect EXCEPT !.Trill = [Fret |-> fret.v,
                                                   Duration |-> "sixteenth"]]]

readTrill(buf, pos, effect) ==
    LET fret == readByte(buf, pos)
        period == readByte(buf, fret.pos)
    IN  IF fret.st # "ok" THEN [pos |-> fret.pos, effect |-> effect]
        ELSE IF period.st # "ok" THEN [pos |-> period.pos, effect |-> effect]
        ELSE [pos |-> period.pos,
              effect |->
                CASE period.v = 1 ->
                       [effect EXCEPT !.Trill = [Fret |-> fret.v, Duration |-> "sixteenth"]]
                  [] period.v = 2 ->
                       [effect EXCEPT !.Trill = [Fret |-> fret.v, Duration |-> "thirty_second"]]
                  [] period.v = 3 ->
                       [effect EXCEPT !.Trill = [Fret |-> fret.v, Duration |-> "sixty_fourth"]]
                  [] OTHER -> effect]

readNoteEffects(buf, pos, noteEffect) ==
    LET flags1 == readUnsignedByte(buf, pos)
        flags2 == readUnsignedByte(buf, flags1.pos)
        s0 == [pos |-> flags2.pos, effect |-> noteEffect]
        s1 == The({IF HasBit(flags1.v, 1)
                   THEN readBend(buf, s.pos, s.effect) ELSE s : s \in {s0}})
        s2 == The({IF HasBit(flags1.v, 16)
                   THEN readGrace(buf, s.pos, s.effect) ELSE s : s \in {s1}})
        s3 == The({IF HasBit(flags2.v, 4)
                   THEN readTremoloPicking(buf, s.pos, s.effect) ELSE s : s \in {s2}})
        s4 == The({IF HasBit(flags2.v, 8)
                   THEN [pos |-> readByte(buf, s.pos).pos,
                         effect |-> [s.effect EXCEPT !.Slide = TRUE]]
                   ELSE s : s \in {s3}})
        s5 == The({IF HasBit(flags2.v, 16)
                   THEN readArtificialHarmonic(buf, s.pos, s.effect)
                   ELSE s : s \in {s4}})
        s6 == The({IF HasBit(flags2.v, 32)
                   THEN readTrill(buf, s.pos, s.effect) ELSE s : s \in {s5}})
    IN  IF flags1.st # "ok" THEN [pos |-> flags1.pos, effect |-> noteEffect]
        ELSE IF flags2.st # "ok" THEN [pos |-> flags2.pos, effect |-> noteEffect]
        ELSE The({[pos |-> s.pos,
                   effect |-> [s.effect EXCEPT
                                 !.Hammer = HasBit(flags1.v, 2),
                                 !.LetRing = HasBit(flags1.v, 8),
                                 !.Vibrato = HasBit(flags2.v, 64),
                                 !.PalmMute = HasBit(flags2.v, 2),
                                 !.Staccato = HasBit(flags2.v, 1)]] : s \in {s6}})

RECURSIVE tiedInNotes(_, _, _)
\* the innermost loop of getTiedNoteValue: notes n, n-1, .. 1 of a voice
tiedInNotes(notes, n, guitarString) ==
    IF n = 0 THEN [found |-> FALSE, v |-> 0]
    ELSE IF notes[n].String = guitarString /\ notes[n].TiedNote
         THEN [found |-> TRUE, v |-> notes[n].Value]
         ELSE tiedInNotes(notes, n - 1, guitarString)

RECURSIVE tiedInVoices(_, _, _)
\* voices v, v+1, .. of a beat
tiedInVoices(voices, v, guitarString) ==
    IF v > Len(voices) THEN [found |-> FALSE, v |-> 0]
    ELSE LET r == IF ~voices[v].Empty
                  THEN tiedInNotes(voices[v].Notes, Len(voices[v].Notes), guitarString)
                  ELSE [found |-> FALSE, v |-> 0]
         IN  IF r.found THEN r ELSE tiedInVoices(voices, v + 1, guitarString)

RECURSIVE tiedInBeats(_, _, _)
\* beats b, b-1, .. 1 of a measure
tiedInBeats(beats, b, guitarString) ==
    IF b = 0 THEN [found |-> FALSE, v |-> 0]
    ELSE LET r == tiedInVoices(beats[b].Voices, 1, guitarString)
         IN  IF r.found THEN r ELSE tiedInBeats(beats, b - 1, guitarString)

RECURSIVE tiedInMeasures(_, _, _)
\* measures m, m-1, .. 1 of a track
tiedInMeasures(measures, m, guitarString) ==
    IF m = 0 THEN [found |-> FALSE, v |-> 0]
    ELSE LET r == tiedInBeats(measures[m].Beats, Len(measures[m].Beats), guitarString)
         IN  IF r.found THEN r ELSE tiedInMeasures(measures, m - 1, guitarString)

getTiedNoteValue(guitarString, track) ==
    tiedInMeasures(track.Measures, Len(track.Measures), guitarString).v

\* the fret value kept, unchecked
FretValue_Unchecked(value) == value

\* note.Value for the value of the fret byte or of the tied note
FretValue(value) == IF value >= 0 /\ value < 100 THEN value ELSE 0

\* the reserved bytes of a note without the last one
skipReserved_NoLast(pos, flags) ==
    IF HasBit(flags, 1)
    THEN skip(IF HasBit(flags, 128) THEN skip(pos, 2) ELSE pos, 8)
    ELSE (IF HasBit(flags, 128) THEN skip(pos, 2) ELSE pos)

\* the reserved bytes of a note: skip(2) for 0x80, skip(8) for 0x01, skip(1)
skipReserved(pos, flags) ==
    skip(IF HasBit(flags, 1)
         THEN skip(IF HasBit(flags, 128) THEN skip(pos, 2) ELSE pos, 8)
         ELSE (IF HasBit(flags, 128) THEN skip(pos, 2) ELSE pos),
         1)

\* readNote: the note returned and the cursor after the call; st is "err"
\* when the call returned Note{} after a failed read, fret tells whether
\* the call consumed a fret byte and head is the cursor before the effects.  s1 .. s5 are the note and the cursor after
\* the type, the velocity, the fret, the reserved bytes and the effects.
readNote(buf, pos, guitarString, track, effect) ==
    LET flags == readUnsignedByte(buf, pos)
        note0 == [String |-> guitarString.Number,
                  Effect |-> [effect EXCEPT
                                !.AccentuatedNote = HasBit(flags.v, 64),
                                !.HeavyAccentuatedNote = HasBit(flags.v, 2),
                                !.GhostNote = HasBit(flags.v, 4)],
                  TiedNote |-> FALSE, Velocity |-> 0, Value |-> 0]
        s1 == IF flags.st # "ok"
              THEN [st |-> "err", pos |-> flags.pos, note |-> note0]
              ELSE IF HasBit(flags.v, 32)
              THEN The({[st |-> noteType.st, pos |-> noteType.pos,
                         note |-> [note0 EXCEPT
                                     !.TiedNote = (noteType.v = 2),
                                     !.Effect.DeadNote = (noteType.v = 3)]] :
                           noteType \in {readUnsignedByte(buf, flags.pos)}})
              ELSE [st |-> "ok", pos |-> flags.pos, note |-> note0]
        s2 == The({IF s.st = "ok" /\ HasBit(flags.v, 16)
                   THEN LET velocity == readByte(buf, s.pos)
                        IN  [st |-> velocity.st, pos |-> velocity.pos,
                             note |-> [s.note EXCEPT
                                         !.Velocity = Velocity(velocity.v)]]
                   ELSE s : s \in {s1}})
        s3 == The({IF s.st = "ok" /\ HasBit(flags.v, 32)
                   THEN LET fret == readByte(buf, s.pos)
                            value == IF s.note.TiedNote
                                     THEN getTiedNoteValue(guitarString.Number, track)
                                     ELSE fret.v
                        IN  [st |-> fret.st, pos |-> fret.pos,
                             note |-> [s.note EXCEPT !.Value = FretValue(value)]]
                   ELSE s : s \in {s2}})
        s4 == The({IF s.st = "ok"
                   THEN [s EXCEPT !.pos = skipReserved(s.pos, flags.v)]
                   ELSE s : s \in {s3}})
        s5 == The({IF s.st = "ok" /\ HasBit(flags.v, 8)
                   THEN The({[st |-> s.st, pos |-> fx.pos, head |-> s.pos,
                              note |-> [s.note EXCEPT !.Effect = fx.effect]] :
                               fx \in {readNoteEffects(buf, s.pos, s.note.Effect)}})
                   ELSE [st |-> s.st, pos |-> s.pos, head |-> s.pos,
                         note |-> s.note] : s \in {s4}})
    IN  The({IF s.st # "ok"
             THEN [st |-> "err", note |-> ZeroNote, pos |-> s.pos, fret |-> FALSE,
                   head |-> s.head]
             ELSE [st |-> "ok", note |-> s.note, pos |-> s.pos,
                   fret |-> HasBit(flags.v, 32), head |-> s.head] : s \in {s5}})

----------------------------------------------------------------------------
(* Beats: the decoders readBeat calls.                                      *)

\* Voice{}; Duration is the voice's Duration.Value
ZeroDuration ==
    [Value |-> 0, Dotted |-> FALSE, DoubleDotted |-> FALSE,
     Division |-> [Times |-> 0, Enters |-> 0]]

ZeroVoice == [Notes |-> <<>>, Empty |-> FALSE, Duration |-> ZeroDuration]

\* the Beat getBeat makes: Beat{} with two voices; a Text is its Value and a
\* Chord its Name and Frets
ZeroBeat(start) ==
    [Start |-> start, Voices |-> <<ZeroVoice, ZeroVoice>>,
     Stroke |-> [Direction |-> "", Value |-> ""],
     Text |-> <<>>, Chord |-> [Name |-> <<>>, Frets |-> <<>>]]

\* one round of the loop of readTremoloBar from st: the state of the loop, the
\* cursor and the points so far
readTremoloBarPoint(buf, st) ==
    LET position == readInt(buf, st.pos)
        value == readInt(buf, position.pos)
        pad == readByte(buf, value.pos)
    IN  IF position.st # "ok"
        THEN [st |-> "err", pos |-> position.pos, points |-> st.points]
        ELSE IF value.st # "ok"
        THEN [st |-> "err", pos |-> value.pos, points |-> st.points]
        ELSE [st |-> "ok", pos |-> pad.pos,
              points |-> Append(st.points, [Position |-> position.v,
                                            Value |-> RoundDiv(value.v, 47)])]

RECURSIVE readTremoloBarPoints(_, _, _)
\* the loop of readTremoloBar with n rounds to go
readTremoloBarPoints(buf, from, n) ==
    The({IF n <= 0 \/ st.st # "ok" THEN st
         ELSE readTremoloBarPoints(buf, readTremoloBarPoint(buf, st), n - 1) :
            st \in {from}})

readTremoloBar(buf, pos, effect) ==
    LET numPoints == readInt(buf, skip(pos, 5)) IN
    IF numPoints.st # "ok" THEN [pos |-> numPoints.pos, effect |-> effect]
    ELSE The({[pos |-> loop.pos,
               effect |-> IF loop.st = "ok" /\ Len(loop.points) > 0
                          THEN [effect EXCEPT !.TremoloBar = loop.points]
                          ELSE effect] :
                 loop \in {readTremoloBarPoints(buf,
                               [st |-> "ok", pos |-> numPoints.pos, points |-> <<>>],
                               numPoints.v)}})

\* readBeatEffects: the cursor, the beat and the note effect after the call.
\* s1 .. s4 are these after the effect byte, the tremolo bar, the stroke and
\* the last byte; st is "err" from a failed read on.
readBeatEffects(buf, pos, beat, noteEffect) ==
    LET flags1 == readUnsignedByte(buf, pos)
        flags2 == readUnsignedByte(buf, flags1.pos)
        e0 == [noteEffect EXCEPT !.FadeIn = HasBit(flags1.v, 16),
                                 !.Vibrato = HasBit(flags1.v, 2)]
        s1 == IF HasBit(flags1.v, 32)
              THEN The({[st |-> effect.st, pos |-> effect.pos, beat |-> beat,
                         effect |-> IF effect.st = "ok"
                                    THEN [e0 EXCEPT !.Tapping = (effect.v = 1),
                                                    !.Slapping = (effect.v = 2),
                                                    !.Pop = (effect.v = 3)]
                                    ELSE e0] :
                           effect \in {readUnsignedByte(buf, flags2.pos)}})
              ELSE [st |-> "ok", pos |-> flags2.pos, beat |-> beat, effect |-> e0]
        s2 == The({IF s.st = "ok" /\ HasBit(flags2.v, 4)
                   THEN The({[s EXCEPT !.pos = r.pos, !.effect = r.effect] :
                               r \in {readTremoloBar(buf, s.pos, s.effect)}})
                   ELSE s : s \in {s1}})
        s3 == The({IF s.st = "ok" /\ HasBit(flags1.v, 64)
                   THEN LET strokeUp == readByte(buf, s.pos)
                            strokeDown == readByte(buf, strokeUp.pos)
                        IN  IF strokeUp.st # "ok"
                            THEN [s EXCEPT !.st = "err", !.pos = strokeUp.pos]
                            ELSE IF strokeDown.st # "ok"
                            THEN [s EXCEPT !.st = "err", !.pos = strokeDown.pos]
                            ELSE IF strokeUp.v > 0
                            THEN [s EXCEPT !.pos = strokeDown.pos,
                                           !.beat.Stroke = [Direction |-> "stroke_up",
                                                            Value |-> "stroke_down"]]
                            ELSE IF strokeDown.v > 0
                            THEN [s EXCEPT !.pos = strokeDown.pos,
                                           !.beat.Stroke = [Direction |-> "stroke_down",
                                                            Value |-> "stroke_down"]]
                            ELSE [s EXCEPT !.pos = strokeDown.pos]
                   ELSE s : s \in {s2}})
        s4 == The({IF s.st = "ok" /\ HasBit(flags2.v, 2)
                   THEN [s EXCEPT !.pos = readByte(buf, s.pos).pos]
                   ELSE s : s \in {s3}})
    IN  IF flags1.st # "ok"
        THEN [pos |-> flags1.pos, beat |-> beat, effect |-> noteEffect]
        ELSE IF flags2.st # "ok"
        THEN [pos |-> flags2.pos, beat |-> beat, effect |-> noteEffect]
        ELSE The({[pos |-> s.pos, beat |-> s.beat, effect |-> s.effect] : s \in {s4}})

readText(buf, pos, beat) ==
    LET text == readStringByteSizeOfInteger(buf, pos) IN
    IF text.st # "ok" THEN [pos |-> text.pos, beat |-> beat]
    ELSE [pos |-> text.pos, beat |-> [beat EXCEPT !.Text = text.v]]

RECURSIVE readChordFrets(_, _, _, _)
\* the loop of readChord from round i on, from the state of the loop, the
\* cursor and chord.Frets
readChordFrets(buf, from, i, strings) ==
    The({IF i >= 7 \/ st.st # "ok" THEN st
         ELSE readChordFrets(buf,
                  The({[st |-> fret.st, pos |-> fret.pos,
                        frets |-> IF fret.st = "ok" /\ i < Len(strings)
                                  THEN [st.frets EXCEPT ![i + 1] = fret.v]
                                  ELSE st.frets] :
                         fret \in {readInt(buf, st.pos)}}),
                  i + 1, strings) :
            st \in {from}})

readChord(buf, pos, strings, beat) ==
    LET chordName == readStringByte(buf, skip(pos, 17), 21)
        chordFrets == readInt(buf, skip(chordName.pos, 4))
    IN  IF chordName.st # "ok" THEN [pos |-> chordName.pos, beat |-> beat]
        ELSE IF chordFrets.st # "ok" THEN [pos |-> chordFrets.pos, beat |-> beat]
        ELSE The({IF loop.st # "ok" THEN [pos |-> loop.pos, beat |-> beat]
                  ELSE [pos |-> skip(loop.pos, 32),
                        beat |-> IF Len(strings) > 0
                                 THEN [beat EXCEPT !.Chord = [Name |-> chordName.v,
                                                              Frets |-> loop.frets]]
                                 ELSE beat] :
                    loop \in {readChordFrets(buf,
                                  [st |-> "ok", pos |-> chordFrets.pos,
                                   frets |-> <<0, 0, 0, 0, 0, 0, chordFrets.v>>],
                                  0, strings)}})

\* readMixChange: the cursor and tempo.Value after the call
readMixChange(buf, pos, vi, tempo) ==
    LET instrument == readByte(buf, pos)
        volume == readByte(buf, skip(instrument.pos, 16))
        pan == readByte(buf, volume.pos)
        chorus == readByte(buf, pan.pos)
        reverb == readByte(buf, chorus.pos)
        phaser == readByte(buf, reverb.pos)
        tremolo == readByte(buf, phaser.pos)
        tempoName == readStringByteSizeOfInteger(buf, tremolo.pos)
        tempoValue == readInt(buf, tempoName.pos)
        \* volume, pan, .. tremolo are bytes: each is >= 0
        d1 == readByte(buf, tempoValue.pos)
        d2 == readByte(buf, d1.pos)
        d3 == readByte(buf, d2.pos)
        d4 == readByte(buf, d3.pos)
        d5 == readByte(buf, d4.pos)
        d6 == readByte(buf, d5.pos)
        p7 == IF tempoValue.v >= 0
              THEN (IF vi > 0 THEN skip(skip(d6.pos, 1), 1) ELSE skip(d6.pos, 1))
              ELSE d6.pos
        p8 == skip(readByte(buf, p7).pos, 1)
        p9 == IF vi > 0
              THEN readStringByteSizeOfInteger(buf,
                       readStringByteSizeOfInteger(buf, p8).pos).pos
              ELSE p8
    IN  IF volume.st # "ok" THEN [pos |-> volume.pos, tempo |-> tempo]
        ELSE IF pan.st # "ok" THEN [pos |-> pan.pos, tempo |-> tempo]
        ELSE IF chorus.st # "ok" THEN [pos |-> chorus.pos, tempo |-> tempo]
        ELSE IF reverb.st # "ok" THEN [pos |-> reverb.pos, tempo |-> tempo]
        ELSE IF phaser.st # "ok" THEN [pos |-> phaser.pos, tempo |-> tempo]
        ELSE IF tremolo.st # "ok" THEN [pos |-> tremolo.pos, tempo |-> tempo]
        ELSE IF tempoValue.st # "ok" THEN [pos |-> tempoValue.pos, tempo |-> tempo]
        ELSE [pos |-> p9,
              tempo |-> IF tempoValue.v >= 0 THEN tempoValue.v ELSE tempo]

----------------------------------------------------------------------------
(* Durations.  A float64 time is kept exactly, as a whole number of 1/4096 *)
(* ticks.  The code's float64 operations are exact on every value that is  *)
(* such a number; a result that is not has no value in this model.         *)

\* float64(n) for a whole number of ticks n
Ticks(n) == n * 4096

\* int32(t) for a time t >= 0: truncation
Int32OfTime(t) == t \div 4096

\* a float64 result that is not a whole number of 1/4096 ticks
Inexact(x) == CHOOSE y \in {} : y = x

\* a / b on float64, b > 0
ExactDiv(a, b) == IF a % b = 0 THEN a \div b ELSE Inexact(a)

RECURSIVE Pow2(_)
Pow2(n) == IF n = 0 THEN 1 ELSE 2 * Pow2(n - 1)

\* Duration{} with Value = math.Pow(2, float64(b+4)) / 4 = 2^Exp for the byte b
DurationOf(b) ==
    [Exp |-> WrapByte(b + 4) - 2, Dotted |-> FALSE, DoubleDotted |-> FALSE,
     Division |-> [Enters |-> 0, Times |-> 0]]

\* QUARTER_TIME * 4.0 / 2^exp
WholeOver(exp) ==
    IF exp <= 0 THEN Ticks(3840) * Pow2(-exp)
    ELSE IF exp <= 20 THEN ExactDiv(Ticks(3840), Pow2(exp))
    ELSE Inexact(exp)

getTime(duration) ==
    LET time == WholeOver(duration.Exp)
        dotted == IF duration.Dotted THEN time + ExactDiv(time, 2)
                  ELSE IF duration.DoubleDotted THEN time + ExactDiv(time, 4) * 3
                  ELSE time
    IN  ExactDiv(dotted * duration.Division.Times, duration.Division.Enters)

\* the switch of readDuration with the triplet's two numbers exchanged
DivisionOf_Swapped(divisionType) ==
    CASE divisionType = 3 -> [Enters |-> 2, Times |-> 3]
      [] divisionType \in {5, 6, 7, 9, 10, 11, 12, 13} ->
            [Enters |-> divisionType,
             Times |-> IF divisionType = 5 THEN 5
                       ELSE IF divisionType < 9 THEN 4 ELSE 8]
      [] OTHER -> [Enters |-> 0, Times |-> 0]

\* the switch of readDuration on the division type
DivisionOf(divisionType) ==
    CASE divisionType = 3 -> [Enters |-> 3, Times |-> 2]
      [] divisionType = 5 -> [Enters |-> 5, Times |-> 5]
      [] divisionType = 6 -> [Enters |-> 6, Times |-> 4]
      [] divisionType = 7 -> [Enters |-> 7, Times |-> 4]
      [] divisionType = 9 -> [Enters |-> 9, Times |-> 8]
      [] divisionType = 10 -> [Enters |-> 10, Times |-> 8]
      [] divisionType = 11 -> [Enters |-> 11, Times |-> 8]
      [] divisionType = 12 -> [Enters |-> 12, Times |-> 8]
      [] divisionType = 13 -> [Enters |-> 13, Times |-> 8]
      [] OTHER -> [Enters |-> 0, Times |-> 0]

\* readDuration: the time returned, the Duration it was computed from and the
\* cursor
readDuration(buf, pos, flags) ==
    LET b == readByte(buf, pos)
        d0 == [DurationOf(b.v) EXCEPT !.Dotted = HasBit(flags, 1)]
        divisionType == readInt(buf, b.pos)
        d1 == IF HasBit(flags, 32)
              THEN [d0 EXCEPT !.Division = DivisionOf(divisionType.v)] ELSE d0
        duration == IF d1.Division.Enters = 0
                    THEN [d1 EXCEPT !.Division = [Enters |-> 1, Times |-> 1]]
                    ELSE d1
    IN  IF b.st # "ok" THEN [time |-> 0, duration |-> d0, pos |-> b.pos]
        ELSE IF HasBit(flags, 32) /\ divisionType.st # "ok"
        THEN [time |-> 0, duration |-> d0, pos |-> divisionType.pos]
        ELSE [time |-> getTime(duration), duration |-> duration,
              pos |-> IF HasBit(flags, 32) THEN divisionType.pos ELSE b.pos]

----------------------------------------------------------------------------
(* Measures: getBeat, readBeat, readMeasure.  A *Beat is the index of the  *)
(* beat in measure.Beats (1-based here).                                   *)

\* the least i with measure.Beats[i].Start = start, 0 if there is none
beatAt(measure, start) ==
    LET found == {i \in 1..Len(measure.Beats) : measure.Beats[i].Start = start}
    IN  IF found = {} THEN 0 ELSE CHOOSE i \in found : \A j \in found : i <= j

\* getBeat: the measure after the call and the beat returned
getBeat(measure, start) ==
    IF beatAt(measure, start) # 0
    THEN [measure |-> measure, beat |-> beatAt(measure, start)]
    ELSE [measure |-> [measure EXCEPT !.Beats = Append(@, ZeroBeat(start))],
          beat |-> Len(measure.Beats) + 1]

RECURSIVE readNotes(_, _, _, _, _, _)
\* the loop of readBeat over the string flags, from bit i down to bit 0, from
\* the cursor and the notes of the voice so far
readNotes(buf, from, stringFlags, i, track, effect) ==
    The({IF i < 0 THEN st
         ELSE readNotes(buf,
                  IF HasBit(stringFlags, Pow2(i)) /\ (6 - i) < Len(track.GuitarStrings)
                  THEN The({[pos |-> note.pos, notes |-> Append(st.notes, note.note)] :
                              note \in {readNote(buf, st.pos,
                                                 track.GuitarStrings[(6 - i) + 1],
                                                 track, effect)}})
                  ELSE st,
                  stringFlags, i - 1, track, effect) :
            st \in {from}})

\* the return value of readBeat after a complete decode
\* the duration returned whether the voice has notes or not
beatTime_Always(notes, duration) == duration

beatTime(notes, duration) == IF Len(notes) # 0 THEN duration ELSE 0

\* readBeat: the time returned, the cursor, the measure and tempo.Value after
\* the call; decoded tells whether the call got to its beat.  s1 .. s8 are
\* the beat (at index at of measure.Beats), the cursor, the duration read, the
\* note effect and tempo.Value after the beat type, the duration, the chord,
\* the text, the beat effects, the mix change, the notes and the last bytes;
\* st is "err" from the failed read on that makes readBeat return 0.0.
readBeat(buf, pos, vi, start, measure, track, tempo, voiceIndex) ==
    LET flags == readUnsignedByte(buf, pos)
        vx == voiceIndex + 1
        s1 == The({
                LET beat0 == got.measure.Beats[got.beat]
                    beatType == readUnsignedByte(buf, flags.pos)
                    s0 == [st |-> "ok", pos |-> flags.pos, measure |-> got.measure,
                           at |-> got.beat, beat |-> beat0, time |-> 0,
                           effect |-> ZeroNoteEffect, tempo |-> tempo]
                IN  IF ~HasBit(flags.v, 64) THEN s0
                    ELSE IF beatType.st # "ok"
                    THEN [s0 EXCEPT !.st = "err", !.pos = beatType.pos]
                    ELSE [s0 EXCEPT !.pos = beatType.pos,
                                    !.beat.Voices[vx].Empty = (And8(beatType.v, 2) = 0)] :
                  got \in {getBeat(measure, start)}})
        s2 == The({IF s.st = "ok"
                   THEN The({[s EXCEPT !.pos = duration.pos, !.time = duration.time] :
                               duration \in {readDuration(buf, s.pos, flags.v)}})
                   ELSE s : s \in {s1}})
        s3 == The({IF s.st = "ok" /\ HasBit(flags.v, 2)
                   THEN The({[s EXCEPT !.pos = r.pos, !.beat = r.beat] :
                               r \in {readChord(buf, s.pos, track.GuitarStrings, s.beat)}})
                   ELSE s : s \in {s2}})
        s4 == The({IF s.st = "ok" /\ HasBit(flags.v, 4)
                   THEN The({[s EXCEPT !.pos = r.pos, !.beat = r.beat] :
                               r \in {readText(buf, s.pos, s.beat)}})
                   ELSE s : s \in {s3}})
        s5 == The({IF s.st = "ok" /\ HasBit(flags.v, 8)
                   THEN The({[s EXCEPT !.pos = r.pos, !.beat = r.beat,
                                       !.effect = r.effect] :
                               r \in {readBeatEffects(buf, s.pos, s.beat, s.effect)}})
                   ELSE s : s \in {s4}})
        s6 == The({IF s.st = "ok" /\ HasBit(flags.v, 16)
                   THEN The({[s EXCEPT !.pos = r.pos, !.tempo = r.tempo] :
                               r \in {readMixChange(buf, s.pos, vi, s.tempo)}})
                   ELSE s : s \in {s5}})
        s7 == The({IF s.st # "ok" THEN s
                   ELSE LET stringFlags == readUnsignedByte(buf, s.pos) IN
                        IF stringFlags.st # "ok"
                        THEN [s EXCEPT !.st = "err", !.pos = stringFlags.pos]
                        ELSE The({[s EXCEPT !.pos = loop.pos,
                                            !.beat.Voices[vx].Notes = loop.notes,
                                            !.beat.Voices[vx].Duration.Value = s.time] :
                                    loop \in {readNotes(buf,
                                                 [pos |-> stringFlags.pos,
                                                  notes |-> s.beat.Voices[vx].Notes],
                                                 stringFlags.v, 6, track, s.effect)}}) :
                 s \in {s6}})
        s8 == The({IF s.st # "ok" THEN s
                   ELSE LET read == readByte(buf, skip(s.pos, 1)) IN
                        IF read.st # "ok"
                        THEN [s EXCEPT !.st = "err", !.pos = read.pos]
                        ELSE [s EXCEPT !.pos = IF HasBit(read.v, 2)
                                               THEN skip(read.pos, 1) ELSE read.pos] :
                 s \in {s7}})
    IN  IF flags.st # "ok"
        THEN [time |-> 0, pos |-> flags.pos, measure |-> measure,
              tempo |-> tempo, decoded |-> FALSE]
        ELSE The({[time |-> IF s.st = "ok"
                            THEN beatTime(s.beat.Voices[vx].Notes, s.time) ELSE 0,
                   pos |-> s.pos,
                   measure |-> [s.measure EXCEPT !.Beats[s.at] = s.beat],
                   tempo |-> s.tempo, decoded |-> TRUE] : s \in {s8}})

RECURSIVE readBeats(_, _, _, _, _, _)
\* the loop of readMeasure over the beats of one voice, k rounds to go, from
\* the cursor, the measure, tempo.Value, the running start and the number of
\* calls of readBeat that got to their beat.  Once the cursor is at or past
\* the end of the buffer every further round fails at its first read and
\* changes nothing.
readBeats(buf, from, vi, k, track, voice) ==
    The({IF k <= 0 \/ st.pos >= Len(buf) THEN st
         ELSE readBeats(buf,
                  The({[pos |-> r.pos, measure |-> r.measure, tempo |-> r.tempo,
                        start |-> st.start + r.time,
                        decoded |-> st.decoded + (IF r.decoded THEN 1 ELSE 0)] :
                         r \in {readBeat(buf, st.pos, vi, Int32OfTime(st.start),
                                         st.measure, track, st.tempo, voice)}}),
                  vi, k - 1, track, voice) :
            st \in {from}})

\* no voice of the beat has a note
IsEmptyBeat(beat) == \A v \in 1..Len(beat.Voices) : Len(beat.Voices[v].Notes) = 0

RECURSIVE emptyBeats(_, _)
\* the first loop of the pruning: the pointers &measure.Beats[i] of the empty
\* beats from index i on, in order
emptyBeats(beats, i) ==
    IF i > Len(beats) THEN <<>>
    ELSE IF IsEmptyBeat(beats[i]) THEN <<i>> \o emptyBeats(beats, i + 1)
    ELSE emptyBeats(beats, i + 1)

\* append(beats[:i], beats[i+1:]...), i 1-based
RemoveAt(beats, i) == SubSeq(beats, 1, i - 1) \o SubSeq(beats, i + 1, Len(beats))

\* a pruning that removes the first beat of the list when a beat is empty
removeBeats_First(from, ptrs) ==
    IF ptrs = <<>> THEN from ELSE RemoveAt(from, 1)

RECURSIVE removeBeats(_, _)
\* the second loop of the pruning.  A pointer equals &measure.Beats[i] when it
\* addresses slot i of the backing array, which the removals shift in place:
\* the beat removed for a pointer is whatever beat stands in its slot now, and
\* none when the slot lies past the end of the list.
removeBeats(from, ptrs) ==
    The({IF ptrs = <<>> THEN beats
         ELSE removeBeats(IF Head(ptrs) <= Len(beats)
                          THEN RemoveAt(beats, Head(ptrs)) ELSE beats,
                          Tail(ptrs)) :
            beats \in {from}})

isPercussionChannel(channels, channelId) ==
    LET found == {i \in 1..Len(channels) : channels[i].ID = channelId}
    IN  IF found = {} THEN FALSE
        ELSE channels[CHOOSE i \in found : \A j \in found : i <= j].IsPercussionChannel

getClef(channels, track) ==
    IF /\ ~isPercussionChannel(channels, track.ChannelID)
       /\ \E i \in 1..Len(track.GuitarStrings) : track.GuitarStrings[i].Value <= 34
    THEN "CLEF_BASS"
    ELSE "CLEF_TREBLE"

\* readMeasure: the cursor, the measure and tempo.Value after the call; st is
\* "err" when the call returned at a failed read of a beat count; read is the
\* beat list as the two voices left it, before the pruning, and decoded the
\* number of calls of readBeat that got to their beat
readMeasure(buf, pos, vi, channels, measure, track, tempo, keySignature) ==
    LET beats0 == readInt(buf, pos) IN
    IF beats0.st # "ok"
    THEN [st |-> "err", pos |-> beats0.pos, measure |-> measure,
          tempo |-> tempo, read |-> measure.Beats, decoded |-> 0]
    ELSE The({
           LET beats1 == readInt(buf, v0.pos) IN
           IF beats1.st # "ok"
           THEN [st |-> "err", pos |-> beats1.pos, measure |-> v0.measure,
                 tempo |-> v0.tempo, read |-> v0.measure.Beats,
                 decoded |-> v0.decoded]
           ELSE The({[st |-> "ok", pos |-> v1.pos,
                      measure |-> [v1.measure EXCEPT
                                     !.Beats = removeBeats(@, emptyBeats(@, 1)),
                                     !.Clef = getClef(channels, track),
                                     !.KeySignature = keySignature],
                      tempo |-> v1.tempo, read |-> v1.measure.Beats,
                      decoded |-> v1.decoded] :
                       v1 \in {readBeats(buf,
                                  [v0 EXCEPT !.pos = beats1.pos,
                                             !.start = Ticks(measure.Start)],
                                  vi, beats1.v, track, 1)}}) :
             v0 \in {readBeats(buf,
                        [pos |-> beats0.pos, measure |-> measure, tempo |-> tempo,
                         start |-> Ticks(measure.Start), decoded |-> 0],
                        vi, beats0.v, track, 0)}})

----------------------------------------------------------------------------
(* The measure specification: a file holding MaxMeasures measures of one   *)
(* six-string track and then one note record, cut short by up to MaxCut    *)
(* bytes.  The measures are decoded one after the other, each into a new   *)
(* measure that joins the track's measures (the list getTiedNoteValue      *)
(* scans); then the note is decoded.  Tracks holds the one track.          *)

\* measures in a file
MaxMeasures == 2
\* bytes missing at the end of a file
MaxCut == 1

\* a six-string guitar in standard tuning
GuitarTrack ==
    [ChannelID |-> 0,
     GuitarStrings |-> <<[Number |-> 1, Value |-> 64], [Number |-> 2, Value |-> 59],
                         [Number |-> 3, Value |-> 55], [Number |-> 4, Value |-> 50],
                         [Number |-> 5, Value |-> 45], [Number |-> 6, Value |-> 40]>>,
     Measures |-> <<>>]

\* Measure{} with its Start set
NewMeasure(start) == [Start |-> start, Beats |-> <<>>, Clef |-> "", KeySignature |-> 0]

\* the bytes of a note record with a type and a fret byte
NoteBytes(type, fret) == <<32, type, fret, 0>>

\* the bytes of a beat: flags 0, a duration byte, the string flags, the notes
NoteBeat(dur, stringFlags, notes) == <<0, dur, stringFlags>> \o notes \o <<0, 0>>

\* a beat without notes
RestBeat == NoteBeat(0, 0, <<>>)
\* a quarter and an eighth with fret 5 on string 3, a quarter tied on string 3
QuarterBeat == NoteBeat(0, 16, NoteBytes(1, 5))
EighthBeat == NoteBeat(1, 16, NoteBytes(1, 5))
TiedBeat == NoteBeat(0, 16, NoteBytes(2, 7))

\* the beats of one voice
VoiceScripts ==
    {<<>>, <<RestBeat>>, <<QuarterBeat>>, <<QuarterBeat, RestBeat>>,
     <<EighthBeat, RestBeat>>, <<RestBeat, QuarterBeat>>, <<TiedBeat>>}

\* the bytes of a measure: for each voice the beat count and the beats
MeasureBytes(v0, v1) ==
    LE32(Len(v0)) \o Flatten(v0) \o LE32(Len(v1)) \o Flatten(v1)

\* the measures before the last one of a file
HistoryMeasures ==
    {MeasureBytes(<<QuarterBeat>>, <<>>), MeasureBytes(<<TiedBeat>>, <<RestBeat>>)}

\* the note record at the end of a file
NoteTails == {<<>>, NoteBytes(1, 5), NoteBytes(2, 7)}

\* the values of measure.Start
MeasureStarts == {0, 3840}

InitMeasure ==
    /\ \E hist \in [1..(MaxMeasures - 1) -> HistoryMeasures],
          v0 \in VoiceScripts, v1 \in VoiceScripts,
          tail \in NoteTails, cut \in 0..MaxCut :
          LET file == Flatten(hist) \o MeasureBytes(v0, v1) \o tail
          IN  FileBuffer = SubSeq(file, 1, Len(file) - cut)
    /\ BufferPosition = 0
    /\ VersionIndex = 0
    /\ Channels = <<>>
    /\ Tracks = <<GuitarTrack>>
    /\ last = NoOp

\* measure := Measure{Start: start}; p.readMeasure(&measure, &track, &tempo, 0);
\* the measure joins the track's measures
ReadMeasure ==
    /\ last.op \in {"none", "readMeasure"}
    /\ Len(Tracks[1].Measures) < MaxMeasures
    /\ \E start \in MeasureStarts :
         \E r \in {readMeasure(FileBuffer, BufferPosition, VersionIndex, Channels,
                               NewMeasure(start), Tracks[1], 120, 0)} :
            /\ BufferPosition' = r.pos
            /\ Tracks' = <<[Tracks[1] EXCEPT !.Measures = Append(@, r.measure)]>>
            /\ last' = [op |-> "readMeasure", pre |-> BufferPosition, arg |-> start,
                        st |-> r.st,
                        v |-> [read |-> r.read, decoded |-> r.decoded,
                               tempo |-> r.tempo]]
    /\ UNCHANGED <<FileBuffer, VersionIndex, Channels>>

\* p.readNote(string, &track, NoteEffect{}) for a string of the track
ReadNote ==
    /\ last.op = "readMeasure"
    /\ Len(Tracks[1].Measures) = MaxMeasures
    /\ \E i \in 1..Len(Tracks[1].GuitarStrings) :
         \E r \in {readNote(FileBuffer, BufferPosition, Tracks[1].GuitarStrings[i],
                            Tracks[1], ZeroNoteEffect)} :
            /\ BufferPosition' = r.pos
            /\ last' = [op |-> "readNote", pre |-> BufferPosition,
                        arg |-> Tracks[1].GuitarStrings[i].Number, st |-> r.st,
                        v |-> [note |-> r.note, fret |-> r.fret]]
    /\ UNCHANGED <<FileBuffer, VersionIndex, Channels, Tracks>>

NextMeasure ==
    \/ ReadMeasure
    \/ ReadNote

SpecMeasure == InitMeasure /\ [][NextMeasure]_vars

\* the measure the last readMeasure decoded
LastMeasure == Tracks[1].Measures[Len(Tracks[1].Measures)]

\* C2 (as claimed): when readMeasure returns for a measure that started with
\* an empty beat list, having decoded both voices, no beat of measure.Beats
\* has zero notes in all its voices.
C2_NoEmptyBeatLeft ==
    (last.op = "readMeasure" /\ last.st = "ok") =>
        \A i \in 1..Len(LastMeasure.Beats) : ~IsEmptyBeat(LastMeasure.Beats[i])

\* C3 (as claimed): if every beat readMeasure decoded for a measure has zero
\* notes in both voices, measure.Beats is empty when readMeasure returns.
C3_AllEmptyMeasureHasNoBeats ==
    (/\ last.op = "readMeasure"
     /\ last.v.decoded >= 1
     /\ \A i \in 1..Len(last.v.read) : IsEmptyBeat(last.v.read[i]))
    => LastMeasure.Beats = <<>>

\* the values of the notes on a string in the measures of a track
HistoryValues(track, guitarString) ==
    {track.Measures[m].Beats[b].Voices[v].Notes[n].Value :
        <<m, b, v, n>> \in
            {q \in (1..Len(track.Measures)) \X (1..3) \X (1..2) \X (1..7) :
                /\ q[2] <= Len(track.Measures[q[1]].Beats)
                /\ q[4] <= Len(track.Measures[q[1]].Beats[q[2]].Voices[q[3]].Notes)
                /\ track.Measures[q[1]].Beats[q[2]].Voices[q[3]].Notes[q[4]].String
                      = guitarString}}

\* C4 (as claimed): when readNote decodes a tied note (type byte 2) on a
\* string and the measures of the track already hold a note on that string,
\* the note returned has the value of such a note and readNote has consumed
\* no fret byte.
C4_TiedNoteResolution ==
    (/\ last.op = "readNote"
     /\ last.st = "ok"
     /\ last.v.note.TiedNote
     /\ HistoryValues(Tracks[1], last.arg) # {})
    => (/\ last.v.note.Value \in HistoryValues(Tracks[1], last.arg)
        /\ ~last.v.fret)

----------------------------------------------------------------------------
(* The constructor of the full decoder: ReadVersion, IsSupportedVersion and *)
(* NewParser.  A string is the sequence of its bytes.                       *)

\* "FICHIER GUITAR PRO v"
FichierGuitarPro ==
    <<70, 73, 67, 72, 73, 69, 82, 32, 71, 85, 73, 84, 65, 82, 32, 80, 82, 79, 32, 118>>

\* "FICHIER GUITAR PRO v5.00", "FICHIER GUITAR PRO v5.10"
VERSIONS ==
    <<FichierGuitarPro \o <<53, 46, 48, 48>>, FichierGuitarPro \o <<53, 46, 49, 48>>>>

ReadVersion(buf, pos) == readStringByte(buf, pos, 30)

\* IsSupportedVersion that accepts every "FICHIER GUITAR PRO v.." string
IsSupportedVersion_AnyFichier(version, versionIndex) ==
    IF Len(version) >= Len(FichierGuitarPro)
       /\ SubSeq(version, 1, Len(FichierGuitarPro)) = FichierGuitarPro
    THEN [ok |-> TRUE, VersionIndex |-> 0]
    ELSE [ok |-> FALSE, VersionIndex |-> versionIndex]

\* IsSupportedVersion: the result and p.VersionIndex after the call
IsSupportedVersion(version, versionIndex) ==
    LET found == {i \in 1..Len(VERSIONS) : VERSIONS[i] = version}
    IN  IF found = {} THEN [ok |-> FALSE, VersionIndex |-> versionIndex]
        ELSE [ok |-> TRUE,
              VersionIndex |-> (CHOOSE i \in found : \A j \in found : i <= j) - 1]

\* \d of the regular expression
IsDigit(c) == c >= 48 /\ c <= 57

RECURSIVE DigitsEnd(_, _)
\* the index past the run of digits of s that starts at index i
DigitsEnd(s, i) == IF i <= Len(s) /\ IsDigit(s[i]) THEN DigitsEnd(s, i + 1) ELSE i

\* (\d+)\.(\d+) matches s from index i: a run of digits, "." and a digit
MatchesAt(s, i) ==
    /\ IsDigit(s[i])
    /\ DigitsEnd(s, i) + 1 <= Len(s)
    /\ s[DigitsEnd(s, i)] = 46
    /\ IsDigit(s[DigitsEnd(s, i) + 1])

\* regexp.MustCompile(`(\d+)\.(\d+)`).FindStringSubmatch(s): the leftmost
\* match and its two groups, or nothing
FindStringSubmatch(s) ==
    LET at == {i \in 1..Len(s) : MatchesAt(s, i)}
    IN  IF at = {} THEN <<>>
        ELSE The({<<SubSeq(s, m.i, m.k - 1), SubSeq(s, m.i, m.j - 1),
                    SubSeq(s, m.j + 1, m.k - 1)>> :
                    m \in {[i |-> i, j |-> DigitsEnd(s, i),
                            k |-> DigitsEnd(s, DigitsEnd(s, i) + 1)] :
                             i \in {CHOOSE i \in at : \A j \in at : i <= j}}})

RECURSIVE Atoi(_)
\* strconv.Atoi of a run of digits (of a value that fits an int32 here)
Atoi(ds) ==
    IF ds = <<>> THEN 0
    ELSE 10 * Atoi(SubSeq(ds, 1, Len(ds) - 1)) + (ds[Len(ds)] - 48)

\* the fields NewParser reads after the version, in order
MetaFields ==
    <<"Title", "Subtitle", "Artist", "Album", "LyricsAuthor", "MusicAuthor",
      "Copyright", "Tab", "Instructions">>

NoFields == [f \in {MetaFields[i] : i \in 1..Len(MetaFields)} |-> <<>>]

RECURSIVE readMetadata_Lenient(_, _, _)
\* readMetadata that leaves a field empty when its read fails and goes on
readMetadata_Lenient(buf, from, k) ==
    The({IF k > Len(MetaFields) THEN st
         ELSE readMetadata_Lenient(buf,
                  The({[st |-> "ok", pos |-> r.pos,
                        fields |-> IF r.st = "ok"
                                   THEN [st.fields EXCEPT ![MetaFields[k]] = r.v]
                                   ELSE st.fields] :
                         r \in {readStringByteSizeOfInteger(buf, st.pos)}}),
                  k + 1) :
            st \in {from}})

RECURSIVE readMetadata(_, _, _)
\* the reads of NewParser from field k on, from the state of the reads (the
\* first failure ends them), the cursor and the fields so far
readMetadata(buf, from, k) ==
    The({IF k > Len(MetaFields) \/ st.st # "ok" THEN st
         ELSE readMetadata(buf,
                  The({[st |-> r.st, pos |-> r.pos,
                        fields |-> IF r.st = "ok"
                                   THEN [st.fields EXCEPT ![MetaFields[k]] = r.v]
                                   ELSE st.fields] :
                         r \in {readStringByteSizeOfInteger(buf, st.pos)}}),
                  k + 1) :
            st \in {from}})

\* return nil, err (st = "err"), or a panic that leaves NewParser without
\* returning (st = "panic"), with the cursor where the parser under
\* construction stood
NoParser(st, pos) ==
    [parser |-> FALSE, err |-> (st = "err"), pos |-> pos, Version |-> <<>>,
     VersionIndex |-> 0, Major |-> 0, Minor |-> 0, fields |-> NoFields]

\* NewParser for a file that can (readable) or cannot be opened and read:
\* whether a parser and whether an error is returned, and the parser's fields
NewParser(readable, buf) ==
    IF ~readable THEN NoParser("err", 0)
    ELSE The({
      IF version.st # "ok" THEN NoParser(version.st, version.pos)
      ELSE The({
        IF ~sup.ok THEN NoParser("err", version.pos)
        ELSE The({
          IF Len(matches) < 3 THEN NoParser("err", version.pos)
          ELSE The({
            IF meta.st # "ok" THEN NoParser(meta.st, meta.pos)
            ELSE [parser |-> TRUE, err |-> FALSE, pos |-> meta.pos,
                  Version |-> version.v, VersionIndex |-> sup.VersionIndex,
                  Major |-> Atoi(matches[2]), Minor |-> Atoi(matches[3]),
                  fields |-> meta.fields] :
              meta \in {readMetadata(buf, [st |-> "ok", pos |-> version.pos,
                                           fields |-> NoFields], 1)}}) :
            matches \in {FindStringSubmatch(version.v)}}) :
          sup \in {IsSupportedVersion(version.v, 0)}}) :
        version \in {ReadVersion(buf, 0)}})

----------------------------------------------------------------------------
(* The header specification: NewParser on a file that holds a version slot *)
(* and nine metadata strings, or a part of them.                           *)

\* the two supported versions, "FICHIER GUITAR PRO v5.20" and
\* "FICHIER GUITAR PRO v4.06"
VersionTexts ==
    {VERSIONS[1], VERSIONS[2], FichierGuitarPro \o <<53, 46, 50, 48>>,
     FichierGuitarPro \o <<52, 46, 48, 54>>}

\* the length bytes of the version slot
VersionLens == {0, 23, 24, 255}

\* the 31 bytes of a version slot
VersionSlot(len, text) == <<len>> \o text \o [i \in 1..(30 - Len(text)) |-> 0]

\* the bytes of a metadata string: the size byte, the length byte, the text
MetaStrings == {<<1, 0>>, <<2, 1, 65>>, <<0, 1, 65>>, <<3, 1, 65, 66>>}

\* the bytes of the metadata strings of most fields of a file
PlainStrings == {<<1, 0>>, <<2, 1, 65>>}

\* the fields whose string is drawn from MetaStrings
VariedFields == {1, 9}

\* the complete files
HeaderFiles ==
    {VersionSlot(len, text)
       \o Flatten([i \in 1..Len(MetaFields) |-> IF i = k THEN a ELSE b]) :
         len \in VersionLens, text \in VersionTexts, k \in VariedFields,
         a \in MetaStrings, b \in PlainStrings}

InitHeader ==
    /\ \E file \in HeaderFiles : \E n \in 0..Len(file) :
          FileBuffer = SubSeq(file, 1, n)
    /\ BufferPosition = 0
    /\ VersionIndex = 0
    /\ Channels = <<>>
    /\ Tracks = <<>>
    /\ last = NoOp

\* parser, err := NewParser(filePath); the cursor and VersionIndex are those
\* of the parser NewParser made, returned or not
OpenParser ==
    /\ last.op = "none"
    /\ \E readable \in BOOLEAN :
         \E r \in {NewParser(readable, FileBuffer)} :
            /\ BufferPosition' = r.pos
            /\ VersionIndex' = r.VersionIndex
            /\ last' = [op |-> "NewParser", pre |-> 0, arg |-> readable,
                        st |-> IF r.parser THEN "ok"
                               ELSE IF r.err THEN "err" ELSE "panic",
                        v |-> r]
    /\ UNCHANGED <<FileBuffer, Channels, Tracks>>

NextHeader == OpenParser

SpecHeader == InitHeader /\ [][NextHeader]_vars

RECURSIVE MetaEnd(_, _, _)
\* the offset past k metadata strings laid out from offset pos of buf (a size
\* byte n, a length byte len and n - 1 bytes, or len bytes when n - 1 <= 0),
\* or -1 when buf ends inside one of them
MetaEnd(buf, pos, k) ==
    IF k = 0 THEN pos
    ELSE IF pos + 2 > Len(buf) THEN -1
    ELSE The({IF end > Len(buf) THEN -1 ELSE MetaEnd(buf, end, k - 1) :
                end \in {pos + 2 + (IF buf[pos + 1] - 1 <= 0
                                    THEN buf[pos + 2] ELSE buf[pos + 1] - 1)}})

\* buf ends inside the version slot or inside one of the metadata strings
EndsInsideHeader(buf) == Len(buf) < 31 \/ MetaEnd(buf, 31, Len(MetaFields)) = -1

\* C5: NewParser returns a parser and no error, or an error and no parser,
\* never both and never neither; and when the buffer ends inside the version
\* slot or inside one of the nine metadata strings it returns the error and
\* no parser.
C5_ParserXorError ==
    last.op = "NewParser" =>
        /\ last.v.parser # last.v.err
        /\ EndsInsideHeader(FileBuffer) => (last.v.err /\ ~last.v.parser)

\* NewParser has returned an error for a file with a supported version that
\* ends inside its metadata strings
C5_Witness ==
    /\ last.op = "NewParser"
    /\ last.arg
    /\ Len(FileBuffer) > 31
    /\ FileBuffer[1] = 24
    /\ SubSeq(FileBuffer, 2, 25) = VERSIONS[1]
    /\ EndsInsideHeader(FileBuffer)
    /\ last.v.err

\* C6: NewParser returns a parser only when the version string it decoded is
\* exactly "FICHIER GUITAR PRO v5.00" or "FICHIER GUITAR PRO v5.10" (the
\* length byte of the slot is 24 and the 24 bytes after it are the string),
\* and VersionIndex is then the ordinal of that string, 0 or 1; in every
\* other case it returns an error and no parser.
C6_VersionCheck ==
    last.op = "NewParser" =>
        IF /\ Len(FileBuffer) >= 31
           /\ FileBuffer[1] = 24
           /\ SubSeq(FileBuffer, 2, 25) \in {VERSIONS[1], VERSIONS[2]}
        THEN last.v.parser =>
               /\ last.v.Version = SubSeq(FileBuffer, 2, 25)
               /\ VERSIONS[VersionIndex + 1] = last.v.Version
        ELSE last.v.err /\ ~last.v.parser

\* NewParser has returned a parser for a "FICHIER GUITAR PRO v5.10" file
C6_Witness ==
    /\ last.op = "NewParser"
    /\ last.v.parser
    /\ last.v.Version = VERSIONS[2]
    /\ VersionIndex = 1

----------------------------------------------------------------------------
(* The lightweight header path of gpfile.go: headerLen, readLongString,    *)
(* uncompressedGpInfo and LoadHeader.  The file is read through its offset: *)
(* pos is the offset of fo.                                                *)

\* io.ReadFull(fo, make([]byte, n)) at offset pos, n >= 0: the bytes, or an
\* error at the end of the file; the offset moves over the bytes it got
ReadFull(buf, pos, n) ==
    IF n = 0 THEN Ok(<<>>, pos)
    ELSE IF pos + n > Len(buf)
    THEN Err(<<>>, IF pos > Len(buf) THEN pos ELSE Len(buf))
    ELSE Ok(Slice(buf, pos, pos + n), pos + n)

\* bytes.HasPrefix(s, prefix)
HasPrefix(s, prefix) ==
    Len(prefix) <= Len(s) /\ SubSeq(s, 1, Len(prefix)) = prefix

\* "BCFZ"
Bcfz == <<66, 67, 70, 90>>

\* "FICHIER GUITAR PRO"
FichierGuitar == SubSeq(FichierGuitarPro, 1, 18)

\* "FICHIER GUITARE PRO"
FichierGuitare ==
    <<70, 73, 67, 72, 73, 69, 82, 32, 71, 85, 73, 84, 65, 82, 69, 32, 80, 82, 79>>

\* headerLen: the length returned, head, whether an error is returned and the
\* offset of fo
headerLen(buf) ==
    LET head4 == ReadFull(buf, 0, 4)
        head == ReadFull(buf, 0, 19)
    IN  IF head4.st # "ok" THEN [n |-> 0, head |-> <<>>, st |-> "err", pos |-> head4.pos]
        ELSE IF HasPrefix(head4.v, Bcfz)
        THEN [n |-> 4, head |-> head4.v, st |-> "ok", pos |-> head4.pos]
        ELSE IF head.st # "ok" THEN [n |-> 0, head |-> <<>>, st |-> "err", pos |-> head.pos]
        ELSE IF HasPrefix(Tail(head.v), FichierGuitar)
        THEN [n |-> 19, head |-> head.v, st |-> "ok", pos |-> head.pos + 1]
        ELSE IF HasPrefix(Tail(head.v), FichierGuitare)
        THEN [n |-> 20, head |-> head.v, st |-> "ok", pos |-> head.pos + 2]
        ELSE [n |-> 0, head |-> head.v, st |-> "ok", pos |-> head.pos]

\* readLongString that reads the further byte only when the size is zero
readLongString_ByteOnlyIfZero(buf, pos) ==
    LET size == ReadFull(buf, pos, 4)
        s == ReadFull(buf, size.pos, 1)
    IN  IF size.st # "ok" THEN Err(<<>>, size.pos)
        ELSE IF Int32OfU32(size.v) # 0
        THEN (IF Int32OfU32(size.v) - 1 < 0 THEN Panic(size.pos)
              ELSE ReadFull(buf, size.pos, Int32OfU32(size.v) - 1))
        ELSE IF s.st # "ok" THEN Err(<<>>, s.pos)
        ELSE IF s.v[1] - 1 < 0 THEN Panic(s.pos)
        ELSE ReadFull(buf, s.pos, s.v[1] - 1)

\* readLongString at offset pos; make([]byte, size-1) panics for size < 1
readLongString(buf, pos) ==
    LET size == ReadFull(buf, pos, 4)
        s == ReadFull(buf, size.pos, 1)
    IN  IF size.st # "ok" THEN Err(<<>>, size.pos)
        ELSE IF s.st # "ok" THEN Err(<<>>, s.pos)
        ELSE The({IF n - 1 < 0 THEN Panic(s.pos)
                  ELSE ReadFull(buf, s.pos, n - 1) :
                    n \in {The({IF v = 0 THEN s.v[1] ELSE v :
                                  v \in {Int32OfU32(size.v)}})}})

\* the version tags uncompressedGpInfo names: "1T\x03\x04", "1.04", "1.02" and
\* "1.03", after which it seeks 3 bytes on, and "v5.0" and "v5.1", for which
\* it reads the Instructions
OldTags == {<<49, 84, 3, 4>>, <<49, 46, 48, 52>>, <<49, 46, 48, 50>>, <<49, 46, 48, 51>>}
V5Tags == {<<118, 53, 46, 48>>, <<118, 53, 46, 49>>}

\* the fields uncompressedGpInfo reads, in order
InfoFields ==
    <<"Title", "Artist", "Subtitle", "Album", "LyricsAuthor", "MusicAuthor",
      "Copyright", "Tab", "Instructions">>

RECURSIVE readInfo(_, _, _, _)
\* the reads of uncompressedGpInfo from field k to field n, from the state of
\* the reads (the first failure ends them), the offset, the fields so far and
\* the number of fields read
readInfo(buf, from, k, n) ==
    The({IF k > n \/ st.st # "ok" THEN st
         ELSE readInfo(buf,
                  The({[st |-> r.st, pos |-> r.pos,
                        fields |-> [st.fields EXCEPT ![InfoFields[k]] = r.v],
                        read |-> st.read + (IF r.st = "ok" THEN 1 ELSE 0)] :
                         r \in {readLongString(buf, st.pos)}}),
                  k + 1, n) :
            st \in {from}})

\* uncompressedGpInfo with fo at offset pos: whether it returns nil ("ok"), an
\* error or panics, gp.Version, the metadata fields of gp, the number of
\* fields it read and the offset of fo
uncompressedGpInfo(buf, pos, head) ==
    LET version == ReadFull(buf, pos, 4) IN
    IF version.st # "ok"
    THEN [st |-> "err", pos |-> version.pos, Version |-> <<>>,
          fields |-> NoFields, read |-> 0]
    ELSE The({[st |-> r.st, pos |-> r.pos, Version |-> version.v,
               fields |-> r.fields, read |-> r.read] :
                r \in {readInfo(buf,
                          [st |-> "ok",
                           pos |-> (head[1] + 6)
                                     + (IF version.v \in OldTags THEN 3 ELSE 1),
                           fields |-> NoFields, read |-> 0],
                          1, IF version.v \in V5Tags THEN 9 ELSE 8)}})

\* LoadHeader for a file that is there (present) or not; gpxFails is the
\* result of loadGPXFile, which sets no field of gp
LoadHeader(present, gpxFails, buf) ==
    IF ~present \/ Len(buf) = 0
    THEN [st |-> "err", pos |-> 0, Version |-> <<>>, fields |-> NoFields,
          read |-> 0, headerlen |-> 0]
    ELSE The({
      IF h.st # "ok" \/ h.n = 0
      THEN [st |-> "err", pos |-> h.pos, Version |-> <<>>, fields |-> NoFields,
            read |-> 0, headerlen |-> h.n]
      ELSE IF h.n = 4
      THEN [st |-> IF gpxFails THEN "err" ELSE "ok", pos |-> h.pos,
            Version |-> <<>>, fields |-> NoFields, read |-> 0, headerlen |-> h.n]
      ELSE The({[st |-> r.st, pos |-> r.pos, Version |-> r.Version,
                 fields |-> r.fields, read |-> r.read, headerlen |-> h.n] :
                  r \in {uncompressedGpInfo(buf, h.pos, h.head)}}) :
        h \in {headerLen(buf)}})

----------------------------------------------------------------------------
(* The info specification: LoadHeader on a file that holds a signature, a  *)
(* version tag and nine long strings, or a part of them, on a compressed   *)
(* file and on a file of another kind.                                     *)

\* "v4.0" and "v9.9"
OtherTags == {<<118, 52, 46, 48>>, <<118, 57, 46, 57>>}

\* the version tags of the files
InfoTags == V5Tags \cup OtherTags \cup {<<49, 46, 48, 52>>}

\* the 31 bytes before the long strings: the length byte, "FICHIER GUITAR
\* PRO ", the tag and the rest of the slot
InfoSlot(len, tag) ==
    <<len>> \o FichierGuitar \o <<32>> \o tag \o <<48, 0, 0, 0, 0, 0, 0>>

\* the bytes of a long string: the size, the length byte, the text
LongStrings ==
    {<<1, 0, 0, 0, 0>>, <<2, 0, 0, 0, 1, 65>>, <<0, 0, 0, 0, 2, 66>>,
     <<0, 0, 0, 0, 0>>}

\* the bytes of the long strings of most fields of a file
PlainLongStrings == {<<1, 0, 0, 0, 0>>, <<2, 0, 0, 0, 1, 65>>}

\* the complete files
InfoFiles ==
    {InfoSlot(len, tag)
       \o Flatten([i \in 1..Len(InfoFields) |-> IF i = k THEN a ELSE b]) :
         len \in {22, 24}, tag \in InfoTags, k \in VariedFields,
         a \in LongStrings, b \in PlainLongStrings}
    \cup {Bcfz \o <<0, 0>>, [i \in 1..20 |-> 65]}

InitInfo ==
    /\ \E file \in InfoFiles : \E n \in 0..Len(file) :
          FileBuffer = SubSeq(file, 1, n)
    /\ BufferPosition = 0
    /\ VersionIndex = 0
    /\ Channels = <<>>
    /\ Tracks = <<>>
    /\ last = NoOp

\* err := gp.LoadHeader(); BufferPosition is the offset of the file
OpenInfo ==
    /\ last.op = "none"
    /\ \E present \in BOOLEAN, gpxFails \in BOOLEAN :
         \E r \in {LoadHeader(present, gpxFails, FileBuffer)} :
            /\ BufferPosition' = r.pos
            /\ last' = [op |-> "LoadHeader", pre |-> 0, arg |-> present,
                        st |-> r.st, v |-> r]
    /\ UNCHANGED <<FileBuffer, VersionIndex, Channels, Tracks>>

NextInfo == OpenInfo

SpecInfo == InitInfo /\ [][NextInfo]_vars

\* C7 (as claimed): when the version tag uncompressedGpInfo read is not one
\* of the tags it names, LoadHeader returns an error and no metadata field
\* has been read.
C7_UnrecognizedVersionIsFatal ==
    (/\ last.op = "LoadHeader"
     /\ last.v.headerlen = 19
     /\ Len(last.v.Version) = 4
     /\ last.v.Version \notin (OldTags \cup V5Tags))
    => (last.st = "err" /\ last.v.read = 0)

----------------------------------------------------------------------------
(* Further claims about the cursor. *)

\* b0 + 256*b1 + 65536*b2 + 16777216*b3 modulo 2^32, read as a signed number
LittleEndian32(b0, b1, b2, b3) ==
    IF b3 >= 128
    THEN (16777216 * (b3 - 256)) + (65536 * b2) + (256 * b1) + b0
    ELSE (16777216 * b3) + (65536 * b2) + (256 * b1) + b0

----------------------------------------------------------------------------
(* The round-trip specification: a text is encoded in one of the string    *)
(* encodings, between other bytes, and decoded by the decoder of that      *)
(* encoding.                                                               *)

\* longest of the short texts
MaxText == 2
\* most padding bytes of a fixed-size slot
MaxPad == 1

\* the bytes of the short texts
TextVals == {0, 65, 255}

\* the longest text of the byte-size-prefixed encoding: 254 bytes
LongText == [i \in 1..254 |-> 65]

Texts == BoundedSeq(TextVals, MaxText) \cup {LongText}

\* the bytes around an encoded text
Margins == {<<>>, <<7>>}

\* a fixed-size slot: the length byte, the text, the padding
EncodeFixed(text, maxSize) ==
    <<Len(text)>> \o text \o [i \in 1..(maxSize - Len(text)) |-> 0]

\* byte-size-prefixed: the text length + 1, the text length, the text
EncodeByteSize(text) == <<Len(text) + 1, Len(text)>> \o text

\* int-size-prefixed: the text length as 4 bytes, least significant first,
\* and the text
EncodeIntSize(text) == LE32(Len(text)) \o text

\* the encodings of a text: the decoder, its size argument and the bytes
Encodings(text) ==
    {[kind |-> "readStringByte", size |-> Len(text) + pad,
      bytes |-> EncodeFixed(text, Len(text) + pad)] : pad \in 0..MaxPad}
    \cup {[kind |-> "readStringByteSizeOfInteger", size |-> 0,
           bytes |-> EncodeByteSize(text)],
          [kind |-> "readStringInteger", size |-> 0,
           bytes |-> EncodeIntSize(text)]}

InitRoundTrip ==
    \E text \in Texts, before \in Margins, after \in Margins :
    \E e \in Encodings(text) :
        /\ FileBuffer = before \o e.bytes \o after
        /\ BufferPosition = Len(before)
        /\ VersionIndex = 0
        /\ Channels = <<>>
        /\ Tracks = <<>>
        /\ last = [op |-> "encode", pre |-> Len(before),
                   arg |-> [kind |-> e.kind, size |-> e.size, text |-> text,
                            len |-> Len(e.bytes)],
                   st |-> "ok", v |-> <<>>]

\* the decoder of the encoding is called, with result res
Decode(kind, res) ==
    /\ last.op = "encode"
    /\ last.arg.kind = kind
    /\ \E r \in {res} :
          /\ BufferPosition' = r.pos
          /\ last' = [op |-> kind, pre |-> BufferPosition, arg |-> last.arg,
                      st |-> r.st, v |-> r.v]
    /\ UNCHANGED <<FileBuffer, VersionIndex, Channels, Tracks>>

DecodeFixed ==
    Decode("readStringByte", readStringByte(FileBuffer, BufferPosition, last.arg.size))

DecodeByteSize ==
    Decode("readStringByteSizeOfInteger",
           readStringByteSizeOfInteger(FileBuffer, BufferPosition))

DecodeIntSize ==
    Decode("readStringInteger", readStringInteger(FileBuffer, BufferPosition))

NextRoundTrip ==
    \/ DecodeFixed
    \/ DecodeByteSize
    \/ DecodeIntSize

SpecRoundTrip == InitRoundTrip /\ [][NextRoundTrip]_vars

\* C12: decoding an encoded text with the decoder of its encoding (the
\* fixed-size slot, the byte-size-prefixed and the int-size-prefixed
\* encoding) returns the text and advances the cursor by exactly the size of
\* the encoding.
C12_StringRoundTrip ==
    last.op \in StringReads =>
        /\ last.st = "ok"
        /\ last.v = last.arg.text
        /\ BufferPosition = last.pre + last.arg.len

\* C12 witness: readStringByteSizeOfInteger has decoded the longest text the
\* byte-size-prefixed encoding holds, with other bytes after it
C12_Witness ==
    /\ last.op = "readStringByteSizeOfInteger"
    /\ last.st = "ok"
    /\ Len(last.v) = 254
    /\ BufferPosition < Len(FileBuffer)

----------------------------------------------------------------------------
(* The long-string specification: readLongString on a size, a byte and a   *)
(* few bytes more, between other bytes.                                    *)

\* most bytes after the size and the byte
MaxBody == 3

\* the 4-byte sizes: 0, 1, 2, 3 and -1
SizeWords == {LE32(0), LE32(1), LE32(2), LE32(3), <<255, 255, 255, 255>>}

\* the bytes after the size
SizeBytes == 0..3

InitLongString ==
    \E size \in SizeWords, b \in SizeBytes, n \in 0..MaxBody, before \in Margins :
        /\ FileBuffer = before \o size \o <<b>> \o [i \in 1..n |-> 64 + i]
        /\ BufferPosition = Len(before)
        /\ VersionIndex = 0
        /\ Channels = <<>>
        /\ Tracks = <<>>
        /\ last = NoOp

\* s, err := gp.readLongString(fo); BufferPosition is the offset of fo
ReadLongString ==
    /\ Running
    /\ BufferPosition < Len(FileBuffer)
    /\ \E r \in {readLongString(FileBuffer, BufferPosition)} :
          /\ BufferPosition' = r.pos
          /\ last' = Done("readLongString", BufferPosition, 0, r)
    /\ UNCHANGED <<FileBuffer, VersionIndex, Channels, Tracks>>

NextLongString == ReadLongString

SpecLongString == InitLongString /\ [][NextLongString]_vars

\* the 4-byte size at the offset the last call started from
SizeRead ==
    LittleEndian32(FileBuffer[last.pre + 1], FileBuffer[last.pre + 2],
                   FileBuffer[last.pre + 3], FileBuffer[last.pre + 4])

SizeUsed == IF SizeRead # 0 THEN SizeRead ELSE FileBuffer[last.pre + 5]

----------------------------------------------------------------------------
(* The table specification: readChannels on a channel table, whole or cut  *)
(* short, between other bytes, and again from where it left the cursor.    *)

\* most bytes missing at the end of a table
MaxTableCut == 14

InitTable ==
    /\ \E b \in {0, 100, 250}, cut \in 0..MaxTableCut, before \in Margins,
          after \in {<<>>, LE32(10)} :
          /\ FileBuffer = before \o SubSeq(TableBytes(b), 1, 832 - cut)
                            \o (IF cut = 0 THEN after ELSE <<>>)
          /\ BufferPosition = Len(before)
    /\ VersionIndex = 0
    /\ Channels = <<>>
    /\ Tracks = <<>>
    /\ last = NoOp

NextTable == ReadChannels

SpecTable == InitTable /\ [][NextTable]_vars

\* C14 (as claimed): every call of readChannels advances the cursor by
\* exactly 832 bytes.
C14_TableConsumed ==
    last.op = "readChannels" => BufferPosition = last.pre + 832

\* C14 (amended): a call of readChannels advances the cursor by exactly 832
\* bytes when at least 830 bytes remain at the offset (the 64 records less
\* the two bytes skipped after the last one); with fewer bytes remaining the
\* reads that fail consume nothing and the cursor advances by less, though by
\* the 128 skipped bytes at least.
C14_TableConsumedWhenPresent ==
    last.op = "readChannels" =>
        /\ (BufferPosition = last.pre + 832) <=> (last.pre + 830 <= Len(FileBuffer))
        /\ BufferPosition <= last.pre + 832
        /\ BufferPosition >= last.pre + 128

\* C14 witness: readChannels has consumed a whole table that other bytes
\* follow
C14_Witness ==
    /\ last.op = "readChannels"
    /\ last.pre = 1
    /\ BufferPosition = 833
    /\ Len(FileBuffer) > 833

\* the program number of record i (0-based) of the table the last call read
ProgramAt(i) ==
    LittleEndian32(FileBuffer[last.pre + (13 * i) + 1], FileBuffer[last.pre + (13 * i) + 2],
                   FileBuffer[last.pre + (13 * i) + 3], FileBuffer[last.pre + (13 * i) + 4])

\* C15: readChannels returns 64 channels; the channel at index 9, and only
\* that one, is the percussion channel with the bank "default percussion
\* bank"; every channel has Program >= 0 and ID 0; and the channels are in
\* file order: when the table is there, channel i has the program number of
\* record i, or 0 if that is negative, and the volume byte of record i.
C15_ChannelTable ==
    last.op = "readChannels" =>
        /\ Len(Channels) = 64
        /\ \A i \in 0..63 :
              /\ Channels[i + 1].IsPercussionChannel <=> (i = 9)
              /\ (Channels[i + 1].Bank = "default percussion bank") <=> (i = 9)
              /\ Channels[i + 1].Bank \in {"default percussion bank", "default bank"}
              /\ Channels[i + 1].Program >= 0
              /\ Channels[i + 1].ID = 0
              /\ (last.pre + 832 <= Len(FileBuffer)) =>
                    /\ Channels[i + 1].Program
                         = (IF ProgramAt(i) < 0 THEN 0 ELSE ProgramAt(i))
                    /\ Channels[i + 1].Volume = FileBuffer[last.pre + (13 * i) + 5]

\* C15 witness: readChannels has read a negative program number for channel
\* 0 and the percussion record
C15_Witness ==
    /\ last.op = "readChannels"
    /\ last.pre + 832 <= Len(FileBuffer)
    /\ ProgramAt(0) < 0
    /\ Channels[1].Program = 0
    /\ Channels[10].IsPercussionChannel

----------------------------------------------------------------------------
(* Further claims about channel binding. *)

\* the track the step has just bound, or tried to
NewestTrack == Tracks'[Len(Tracks')]

\* the step is a call of readChannel that read both GM indices
BindingStep ==
    /\ last'.op = "readChannel"
    /\ Len(Tracks') = Len(Tracks) + 1
    /\ NewestTrack.read

\* C16 (as claimed): a call of readChannel whose primary index, after the
\* decrement, is outside the 64-entry channel table leaves the track's
\* ChannelID 0 and the channel list as it was, and advances the cursor by the
\* 8 bytes of the two indices.
C16_UnboundLeavesState ==
    [][(BindingStep /\ NewestTrack.primary \notin 0..63) =>
          /\ NewestTrack.track.ChannelID = 0
          /\ Channels' = Channels
          /\ BufferPosition' = BufferPosition + 8]_vars

\* C17: after readChannels and any calls of readChannel, every channel of
\* the list with a nonzero ID has an ID >= 1 that no other channel has, and a
\* track's ChannelID is 0 exactly when readChannel made no binding for it
\* (an index was not read, or the primary index was outside the channel
\* list).
C17_ChannelIdsUnique ==
    /\ [](\A i, j \in 1..Len(Channels) :
             /\ Channels[i].ID >= 0
             /\ (i # j /\ Channels[i].ID # 0) => Channels[i].ID # Channels[j].ID)
    /\ [][last'.op = "readChannel" /\ Len(Tracks') = Len(Tracks) + 1 =>
            ((NewestTrack.track.ChannelID = 0)
               <=> ~(/\ NewestTrack.read
                     /\ NewestTrack.primary >= 0
                     /\ NewestTrack.primary < Len(Channels)))]_vars

\* C17 witness: one track is bound, to a channel with ID 65, and one track
\* whose indices were read is unbound
C17_Witness ==
    /\ Len(Tracks) = 2
    /\ Tracks[1].track.ChannelID = 65
    /\ Tracks[2].read
    /\ Tracks[2].track.ChannelID = 0
    /\ Len(Channels) = 65

----------------------------------------------------------------------------
(* The key specification: readKeySignature on every byte, alone or before  *)
(* another byte, until the buffer is read.                                 *)

InitKey ==
    /\ \E r \in Byte, rest \in {<<>>, <<250>>} : FileBuffer = <<r>> \o rest
    /\ BufferPosition = 0
    /\ VersionIndex = 0
    /\ Channels = <<>>
    /\ Tracks = <<>>
    /\ last = NoOp

NextKey == ReadKeySignature

SpecKey == InitKey /\ [][NextKey]_vars

\* C18: for a raw byte r that it read, readKeySignature returns
\* (r + 7) mod 256: 7 for the raw byte 0 and 1 for the raw byte 250.
C18_KeySignature ==
    (last.op = "readKeySignature" /\ last.pre >= 0 /\ last.pre < Len(FileBuffer)) =>
        /\ last.v = (FileBuffer[last.pre + 1] + 7) % 256
        /\ FileBuffer[last.pre + 1] = 0 => last.v = 7
        /\ FileBuffer[last.pre + 1] = 250 => last.v = 1
        /\ BufferPosition = last.pre + 1

\* C18 witness: readKeySignature has returned 1 for the raw byte 250
C18_Witness ==
    /\ last.op = "readKeySignature"
    /\ last.pre < Len(FileBuffer)
    /\ FileBuffer[last.pre + 1] = 250
    /\ last.v = 1

----------------------------------------------------------------------------
(* The duration specification: readDuration with every pair of the flags   *)
(* 0x01 and 0x20 on a duration byte, alone or before a division type.  The *)
(* duration bytes and the division types are those whose time is a whole   *)
(* number of 1/4096 ticks: a value of at most 2^19, and a division by 1,   *)
(* 3, 5, 6, 10 or 12.                                                      *)

MaxDurationByte == 16

DurationBytes == (0..MaxDurationByte) \cup (252..255)

DivisionTypes == {0, 3, 4, 5, 6, 10, 12}

DurationFlags == {0, 1, 32, 33}

InitDuration ==
    /\ \E b \in DurationBytes,
          tail \in {<<>>, <<3>>} \cup {LE32(t) : t \in DivisionTypes} :
          FileBuffer = <<b>> \o tail
    /\ BufferPosition = 0
    /\ VersionIndex = 0
    /\ Channels = <<>>
    /\ Tracks = <<>>
    /\ last = NoOp

\* the duration was read: the byte is there, and so is the division type
\* when flag 0x20 asks for it
DurationRead(buf, pos, flags) ==
    /\ pos >= 0
    /\ pos < Len(buf)
    /\ HasBit(flags, 32) => pos + 5 <= Len(buf)

ReadDuration ==
    /\ last.op = "none"
    /\ \E flags \in DurationFlags :
        \E r \in {readDuration(FileBuffer, BufferPosition, flags)} :
            /\ BufferPosition' = r.pos
            /\ last' = [op |-> "readDuration", pre |-> BufferPosition,
                        arg |-> flags,
                        st |-> IF DurationRead(FileBuffer, BufferPosition, flags)
                               THEN "ok" ELSE "err",
                        v |-> [time |-> r.time, duration |-> r.duration]]
    /\ UNCHANGED <<FileBuffer, VersionIndex, Channels, Tracks>>

NextDuration == ReadDuration

SpecDuration == InitDuration /\ [][NextDuration]_vars

\* the table of the tuplets: enters and times for a division type
TupletTable(code) ==
    CASE code = 3 -> <<3, 2>>
      [] code = 5 -> <<5, 5>>
      [] code = 6 -> <<6, 4>>
      [] code = 7 -> <<7, 4>>
      [] code = 9 -> <<9, 8>>
      [] code = 10 -> <<10, 8>>
      [] code = 11 -> <<11, 8>>
      [] code = 12 -> <<12, 8>>
      [] code = 13 -> <<13, 8>>
      [] OTHER -> <<1, 1>>

\* the division type that follows the duration byte of a duration read
\* with flag 0x20
DivisionTypeAt(buf, pos) == readInt(buf, pos + 1).v

\* enters and times of a duration read with the flags at pos
TupletOf(buf, pos, flags) ==
    IF HasBit(flags, 32) THEN TupletTable(DivisionTypeAt(buf, pos))
    ELSE <<1, 1>>

\* time = 960*4 / 2^exp, times 3/2 when dotted, times times/enters; time in
\* 1/4096 ticks, exp from -2 to 20
IsTimeOf(time, exp, dotted, tuplet) ==
    /\ exp >= -2
    /\ exp <= 20
    /\ time * Pow2(exp + 2) * 2 * tuplet[1] =
           Ticks(3840) * 4 * (IF dotted THEN 3 ELSE 2) * tuplet[2]

\* a duration byte b was read by the last readDuration
DurationDecoded ==
    /\ last.op = "readDuration"
    /\ last.st = "ok"

\* C19 as claimed: the value of a duration byte b is 2^(b+4)/4, the
\* exponent b + 4 an integer beyond 255 for b >= 252, and the time returned
\* is 960*4/value, times 3/2 when dotted, times times/enters of the table.
C19_DurationArithmetic ==
    DurationDecoded =>
        /\ last.v.duration.Exp = FileBuffer[last.pre + 1] + 4 - 2
        /\ IsTimeOf(last.v.time, FileBuffer[last.pre + 1] + 4 - 2,
                    HasBit(last.arg, 1),
                    TupletOf(FileBuffer, last.pre, last.arg))

\* C19, amended: the value of a duration byte b is 2^((b+4) mod 256)/4, the
\* exponent being a byte, and the time returned is 960*4/value, times 3/2
\* when flag 0x01 is set, times times/enters, taken from the table when flag
\* 0x20 is set and 1:1 for any other division type or without the flag; the
\* switch of readDuration has the rows of the table.
C19_DurationArithmeticByteExponent ==
    /\ \A code \in {3, 5, 6, 7, 9, 10, 11, 12, 13} :
          <<DivisionOf(code).Enters, DivisionOf(code).Times>> = TupletTable(code)
    /\ DurationDecoded =>
        /\ last.v.duration.Exp = ((FileBuffer[last.pre + 1] + 4) % 256) - 2
        /\ last.v.duration.Dotted = HasBit(last.arg, 1)
        /\ <<last.v.duration.Division.Enters, last.v.duration.Division.Times>>
               = TupletOf(FileBuffer, last.pre, last.arg)
        /\ IsTimeOf(last.v.time, ((FileBuffer[last.pre + 1] + 4) % 256) - 2,
                    HasBit(last.arg, 1),
                    TupletOf(FileBuffer, last.pre, last.arg))
        /\ BufferPosition = last.pre + (IF HasBit(last.arg, 32) THEN 5 ELSE 1)

\* C19 witness: the duration byte 254 read as a dotted triplet: value 1,
\* time 3840 * 3/2 * 2/3 = 3840
C19_Witness ==
    /\ DurationDecoded
    /\ FileBuffer[last.pre + 1] = 254
    /\ last.arg = 33
    /\ DivisionTypeAt(FileBuffer, last.pre) = 3
    /\ last.v.time = Ticks(3840)

\* the examples of C19: b = 2 gives 240, dotted 360, as a triplet 160
C19_Examples ==
    (DurationDecoded /\ FileBuffer[last.pre + 1] = 2) =>
        /\ last.arg = 0 => last.v.time = Ticks(240)
        /\ last.arg = 1 => last.v.time = Ticks(360)
        /\ (last.arg = 32 /\ DivisionTypeAt(FileBuffer, last.pre) = 3)
               => last.v.time = Ticks(160)

----------------------------------------------------------------------------
(* Further claims about measures                                           *)

\* the voices of the measures of the track that have notes: each was the
\* active voice of a readBeat that got to its notes and stored its duration
VoicesWithNotes ==
    {Tracks[1].Measures[m].Beats[i].Voices[v] :
        <<m, i, v>> \in {t \in (1..MaxMeasures) \X (1..8) \X (1..2) :
                            /\ t[1] <= Len(Tracks[1].Measures)
                            /\ t[2] <= Len(Tracks[1].Measures[t[1]].Beats)
                            /\ Tracks[1].Measures[t[1]].Beats[t[2]].Voices[t[3]].Notes
                                   # <<>>}}

\* a float64 that is a power of two from 2^-12 to 2^18, in 1/4096
IsPowerOfTwo(x) == \E k \in 0..30 : x = Pow2(k)

\* C20: after readBeat has decoded a beat, the Duration stored in the active
\* voice has the note-length value 2^(b+4)/4 of the duration byte, a power
\* of two, and its Division.Enters is not 0.
C20_StoredDuration ==
    \A voice \in VoicesWithNotes :
        /\ IsPowerOfTwo(voice.Duration.Value)
        /\ voice.Duration.Division.Enters # 0

\* what readBeat stores: the time readDuration returned, 960 ticks for a
\* quarter, in Value, and nothing in Division
C20_StoredTime ==
    \A voice \in VoicesWithNotes :
        /\ voice.Duration.Value \in {Ticks(960), Ticks(480)}
        /\ voice.Duration.Division = [Times |-> 0, Enters |-> 0]

----------------------------------------------------------------------------
(* The note specification: readNote on one note record, whole or cut       *)
(* short, on a string of a track with no measure or with one measure that  *)
(* readMeasure decoded.                                                    *)

MaxNoteCut == 2

\* the flags 0x01, 0x10, 0x20 and 0x80 of a note, in every combination
NoteFlagSets == {a + b + c + d : a \in {0, 1}, b \in {0, 16}, c \in {0, 32}, d \in {0, 128}}

NoteTypes == {1, 2}

FretBytes == {5, 100, 255}

\* the bytes of a note before its effects: the flags, the type, the
\* velocity (6), the fret and the reserved bytes (9)
HeadBytes(flags, type, fret) ==
    <<flags>>
    \o (IF HasBit(flags, 32) THEN <<type>> ELSE <<>>)
    \o (IF HasBit(flags, 16) THEN <<6>> ELSE <<>>)
    \o (IF HasBit(flags, 32) THEN <<fret>> ELSE <<>>)
    \o (IF HasBit(flags, 128) THEN <<9, 9>> ELSE <<>>)
    \o (IF HasBit(flags, 1) THEN <<9, 9, 9, 9, 9, 9, 9, 9>> ELSE <<>>)
    \o <<9>>

\* the effects of a note by the field they fill: the two flag bytes and
\* the record of the field
EffectRecords ==
    [Bend |-> <<1, 0>> \o <<0, 0, 0, 0, 0>> \o LE32(1) \o LE32(10) \o LE32(50) \o <<0>>,
     Grace |-> <<16, 0>> \o <<3, 2, 1, 4, 1>>,
     TremoloPicking |-> <<0, 4>> \o <<2>>,
     Harmonic |-> <<0, 16>> \o <<2, 0, 0, 0>>,
     Trill |-> <<0, 32>> \o <<4, 1>>]

EffectFields == {"Bend", "Grace", "TremoloPicking", "Harmonic", "Trill"}

\* the track after readMeasure has decoded the bytes of one measure
HistoryTrack(bytes) ==
    [GuitarTrack EXCEPT !.Measures =
        <<readMeasure(bytes, 0, 0, <<>>, NewMeasure(0), GuitarTrack, 120, 0).measure>>]

\* the measure readMeasure decodes from MeasureBytes(<<QuarterBeat>>, <<>>)
QuarterMeasure ==
    [NewMeasure(0) EXCEPT
        !.Beats = <<[ZeroBeat(0) EXCEPT
                       !.Voices[1].Notes = <<[ZeroNote EXCEPT !.String = 3,
                                                              !.Value = 5]>>,
                       !.Voices[1].Duration.Value = Ticks(960)]>>,
        !.Clef = "CLEF_TREBLE"]

\* the measure readMeasure decodes from MeasureBytes(<<TiedBeat>>, <<RestBeat>>)
TiedMeasure ==
    [NewMeasure(0) EXCEPT
        !.Beats = <<[ZeroBeat(0) EXCEPT
                       !.Voices[1].Notes = <<[ZeroNote EXCEPT !.String = 3,
                                                              !.TiedNote = TRUE]>>,
                       !.Voices[1].Duration.Value = Ticks(960),
                       !.Voices[2].Duration.Value = Ticks(960)]>>,
        !.Clef = "CLEF_TREBLE"]

NoteTracks ==
    {GuitarTrack,
     [GuitarTrack EXCEPT !.Measures = <<QuarterMeasure>>],
     [GuitarTrack EXCEPT !.Measures = <<TiedMeasure>>]}

\* the tracks of NoteTracks are those readMeasure decodes
NoteTracksDecoded ==
    NoteTracks = {GuitarTrack,
                  HistoryTrack(MeasureBytes(<<QuarterBeat>>, <<>>)),
                  HistoryTrack(MeasureBytes(<<TiedBeat>>, <<RestBeat>>))}

\* a note record without effects, cut by up to MaxNoteCut bytes, or a note
\* record with the effect of one field, cut inside the effect; last tells
\* the field, the bytes cut and the length of the bytes before the effects
InitNote ==
    /\ \E track \in NoteTracks : Tracks = <<track>>
    /\ \E flags \in NoteFlagSets, type \in NoteTypes, fret \in FretBytes :
        \/ \E cut \in 0..MaxNoteCut :
            /\ FileBuffer = SubSeq(HeadBytes(flags, type, fret), 1,
                                   Len(HeadBytes(flags, type, fret)) - cut)
            /\ last = [op |-> "none", pre |-> 0, st |-> "ok", v |-> 0,
                       arg |-> [field |-> "", cut |-> cut,
                                head |-> Len(HeadBytes(flags, type, fret))]]
        \/ \E field \in EffectFields :
            \E cut \in 0..Len(EffectRecords[field]) :
                /\ FileBuffer = HeadBytes(flags + 8, type, fret)
                                  \o SubSeq(EffectRecords[field], 1,
                                            Len(EffectRecords[field]) - cut)
                /\ last = [op |-> "none", pre |-> 0, st |-> "ok", v |-> 0,
                           arg |-> [field |-> field, cut |-> cut,
                                    head |-> Len(HeadBytes(flags + 8, type, fret))]]
    /\ BufferPosition = 0
    /\ VersionIndex = 0
    /\ Channels = <<>>

\* p.readNote(string, &track, NoteEffect{}) for string 1 or 3 of the track
ReadNoteRecord ==
    /\ last.op = "none"
    /\ \E i \in {1, 3} :
         \E r \in {readNote(FileBuffer, BufferPosition, Tracks[1].GuitarStrings[i],
                            Tracks[1], ZeroNoteEffect)} :
            /\ BufferPosition' = r.pos
            /\ last' = [op |-> "readNote", pre |-> BufferPosition,
                        arg |-> [field |-> last.arg.field, cut |-> last.arg.cut,
                                 head |-> last.arg.head,
                                 string |-> Tracks[1].GuitarStrings[i].Number],
                        st |-> r.st,
                        v |-> [note |-> r.note, fret |-> r.fret, head |-> r.head]]
    /\ UNCHANGED <<FileBuffer, VersionIndex, Channels, Tracks>>

NextNote == ReadNoteRecord

SpecNote == InitNote /\ [][NextNote]_vars

\* the flags of the note record at the start of the buffer
NoteFlags == FileBuffer[1]

\* the fret byte of the note record at the start of the buffer, flag 0x20
\* set
FretByte == FileBuffer[IF HasBit(NoteFlags, 16) THEN 4 ELSE 3]

\* C21: every note readNote returns has a Value in 0..99; a fret byte or a
\* value of a tied note that is not in 0..99 gives the Value 0.
C21_FretRange ==
    last.op = "readNote" =>
        /\ last.v.note.Value \in 0..99
        /\ (last.st = "ok" /\ HasBit(NoteFlags, 32) /\ ~last.v.note.TiedNote
              /\ FretByte \notin 0..99) => last.v.note.Value = 0
        /\ (last.st = "ok" /\ HasBit(NoteFlags, 32) /\ ~last.v.note.TiedNote
              /\ FretByte \in 0..99) => last.v.note.Value = FretByte
        /\ (last.st = "ok" /\ last.v.note.TiedNote
              /\ getTiedNoteValue(last.arg.string, Tracks[1]) \notin 0..99)
              => last.v.note.Value = 0

\* C21 witness: readNote has returned a note whose fret byte is 255
C21_Witness ==
    /\ last.op = "readNote"
    /\ last.st = "ok"
    /\ HasBit(NoteFlags, 32)
    /\ ~last.v.note.TiedNote
    /\ FretByte = 255
    /\ last.v.note.Value = 0

\* the buffer ended inside the effect record of the note readNote read
EndedInEffects ==
    /\ last.op = "readNote"
    /\ last.arg.field # ""
    /\ last.arg.cut >= 1

\* the note is returned with the string, the fret value and the velocity of
\* the bytes before the effects
HeadKept ==
    /\ last.st = "ok"
    /\ last.v.note.String = last.arg.string
    /\ last.v.note.Velocity = (IF HasBit(NoteFlags, 16) THEN 15 + 16 * 6 - 16 ELSE 0)
    /\ last.v.note.TiedNote = (HasBit(NoteFlags, 32) /\ FileBuffer[2] = 2)
    /\ last.v.note.Value =
           (IF ~HasBit(NoteFlags, 32) THEN 0
            ELSE IF FileBuffer[2] = 2
            THEN getTiedNoteValue(last.arg.string, Tracks[1])
            ELSE IF FretByte \in 0..99 THEN FretByte ELSE 0)

\* C22 as claimed: when the buffer ends inside a note-effect record,
\* readNote still returns the note with its string, fret value and
\* velocity, the effect field being read is left zero-valued, and the
\* measures decoded earlier are unchanged.
C22_EffectsDegrade ==
    /\ [](EndedInEffects =>
            /\ HeadKept
            /\ last.v.note.Effect[last.arg.field] = ZeroNoteEffect[last.arg.field])
    /\ [][Tracks' = Tracks]_vars

\* the last bytes of an effect record that its decoder reads or skips
\* without using them: the byte after a bend point, the bytes skipped for
\* an artificial harmonic
IgnoredTail ==
    [Bend |-> 1, Grace |-> 0, TremoloPicking |-> 0, Harmonic |-> 3, Trill |-> 0]

\* C22, amended: when the buffer ends inside a note-effect record, readNote
\* still returns the note with its string, fret value and velocity, and
\* the measures decoded earlier are unchanged; the effect field being read
\* is left zero-valued when a byte its decoder uses is missing, and is
\* filled as from the whole record when only bytes the decoder ignores are
\* missing.
C22_EffectsDegradeUnlessIgnored ==
    /\ [](EndedInEffects =>
            /\ HeadKept
            /\ (last.arg.cut > IgnoredTail[last.arg.field]) =>
                   last.v.note.Effect[last.arg.field] = ZeroNoteEffect[last.arg.field]
            /\ (last.arg.cut <= IgnoredTail[last.arg.field]) =>
                   last.v.note.Effect[last.arg.field] # ZeroNoteEffect[last.arg.field])
    /\ [][Tracks' = Tracks]_vars

\* C22 witness: the buffer ended after the fret of a trill and readNote
\* returned the note, with velocity, without the trill
C22_Witness ==
    /\ EndedInEffects
    /\ last.arg.field = "Trill"
    /\ last.arg.cut = 1
    /\ HeadKept
    /\ HasBit(NoteFlags, 16)
    /\ last.v.note.Effect.Trill = ZeroNoteEffect.Trill
    /\ Tracks[1].Measures # <<>>

\* 1 when the flags of the note have the bit, 0 when not
Bit(bit) == IF HasBit(NoteFlags, bit) THEN 1 ELSE 0

\* C27: on a buffer with enough bytes readNote consumes the flags, the type
\* if 0x20, the velocity if 0x10, the fret if 0x20, 2 bytes if 0x80, 8 bytes
\* if 0x01 and 1 byte, in this order, and only then the effects if 0x08:
\* before the effects the cursor has advanced by
\* 2 + 2*[0x20] + [0x10] + 2*[0x80] + 8*[0x01] bytes.
C27_NoteByteAccounting ==
    (last.op = "readNote" /\ last.arg.cut = 0) =>
        /\ last.st = "ok"
        /\ last.v.head = last.pre + 2 + 2 * Bit(32) + Bit(16) + 2 * Bit(128) + 8 * Bit(1)
        /\ last.v.head = last.pre + last.arg.head
        /\ HasBit(NoteFlags, 32) =>
              /\ last.v.note.TiedNote = (FileBuffer[last.pre + 2] = 2)
              /\ ~last.v.note.TiedNote =>
                    last.v.note.Value =
                        (IF FileBuffer[last.pre + 3 + Bit(16)] < 100
                         THEN FileBuffer[last.pre + 3 + Bit(16)] ELSE 0)
        /\ HasBit(NoteFlags, 16) =>
              last.v.note.Velocity = 15 + 16 * FileBuffer[last.pre + 2 + Bit(32)] - 16
        /\ ~HasBit(NoteFlags, 8) => BufferPosition = last.v.head
        /\ HasBit(NoteFlags, 8) =>
              /\ BufferPosition = last.v.head + Len(EffectRecords[last.arg.field])
              /\ last.v.note.Effect[last.arg.field] # ZeroNoteEffect[last.arg.field]

\* C27 witness: readNote has read a note with all of the flags 0x01, 0x08,
\* 0x10, 0x20 and 0x80 and its grace: 15 bytes, then 7
C27_Witness ==
    /\ last.op = "readNote"
    /\ last.arg.cut = 0
    /\ NoteFlags = 185
    /\ last.arg.field = "Grace"
    /\ last.v.head = 15
    /\ BufferPosition = 22

\* the track's ChannelID is the ID of a channel, and the first such channel
\* is a percussion channel
BoundToPercussion(track) ==
    \E i \in 1..Len(Channels) :
        /\ Channels[i].ID = track.ChannelID
        /\ Channels[i].IsPercussionChannel
        /\ \A j \in 1..(i - 1) : Channels[j].ID # track.ChannelID

\* the clef of a track: bass when the track is not bound to a percussion
\* channel and has a string of open pitch 34 or less, treble when not
ClefOf(track) ==
    IF /\ ~BoundToPercussion(track)
       /\ \E i \in 1..Len(track.GuitarStrings) : track.GuitarStrings[i].Value <= 34
    THEN "CLEF_BASS"
    ELSE "CLEF_TREBLE"

\* C23: whenever readMeasure returns, on every path, after a failed read of
\* a beat count too, the clef of the measure is the clef of the track.
C23_ClefDerivation ==
    last.op = "readMeasure" => LastMeasure.Clef = ClefOf(Tracks[1])

\* the clef where readMeasure sets it: on the path where both beat counts
\* were read; on the other the clef stays as it was, empty
C23_ClefWhenDecoded ==
    last.op = "readMeasure" =>
        LastMeasure.Clef = (IF last.st = "ok" THEN ClefOf(Tracks[1]) ELSE "")

----------------------------------------------------------------------------
(* The signature specification: LoadHeader on files of the four kinds of   *)
(* first bytes, whole or cut short.                                        *)

MaxSignatureFile == 26

\* "BCFZ..", "\x18FICHIER GUITAR PRO v5.00..", "\x19FICHIER GUITARE PRO
\* v1..", "AAAA.."
SignatureFiles ==
    {[i \in 1..MaxSignatureFile |->
         IF i <= Len(start) THEN start[i] ELSE 0] :
       start \in {Bcfz,
                  <<24>> \o VERSIONS[1],
                  <<25>> \o FichierGuitare \o <<32, 118, 49>>,
                  <<65, 65, 65, 65>>}}

InitSignature ==
    /\ \E file \in SignatureFiles : \E n \in 0..Len(file) :
          FileBuffer = SubSeq(file, 1, n)
    /\ BufferPosition = 0
    /\ VersionIndex = 0
    /\ Channels = <<>>
    /\ Tracks = <<>>
    /\ last = NoOp

NextSignature == OpenInfo

SpecSignature == InitSignature /\ [][NextSignature]_vars

\* the bytes of the buffer from offset from that are there, n at most
BytesAt(from, n) ==
    SubSeq(FileBuffer, from + 1,
           IF Len(FileBuffer) < from + n THEN Len(FileBuffer) ELSE from + n)

\* LoadHeader has sniffed a file of at least 19 bytes
Sniffed ==
    /\ last.op = "LoadHeader"
    /\ last.arg
    /\ Len(FileBuffer) >= 19

\* C24: for a file of at least 19 bytes headerLen returns 4 when the first
\* 4 bytes are "BCFZ", 19 when the bytes from offset 1 start with "FICHIER
\* GUITAR PRO", 20 when they start with "FICHIER GUITARE PRO" and 0 when
\* not; LoadHeader fails with the header length 0 exactly in the last case.
C24_SignatureSniffing ==
    Sniffed =>
        /\ last.v.headerlen =
             (IF BytesAt(0, 4) = Bcfz THEN 4
              ELSE IF BytesAt(1, 18) = FichierGuitar THEN 19
              ELSE IF BytesAt(1, 19) = FichierGuitare THEN 20
              ELSE 0)
        /\ last.v.headerlen = 0 => last.st = "err"

\* the header lengths headerLen returns: 20 is not among them, and a file
\* with "FICHIER GUITARE PRO" at offset 1 gets 0
C24_SniffingOfEighteenBytes ==
    Sniffed =>
        /\ last.v.headerlen =
             (IF BytesAt(0, 4) = Bcfz THEN 4
              ELSE IF BytesAt(1, 18) = FichierGuitar THEN 19
              ELSE 0)
        /\ last.v.headerlen = 0 => last.st = "err"

----------------------------------------------------------------------------
(* The start specification: readMeasure on one whole measure whose voices  *)
(* have up to MaxStartBeats beats, each a quarter (duration byte 0, 960    *)
(* ticks) or a 1024th (duration byte 8, 3.75 ticks), with a note or        *)
(* without.                                                                *)

MaxStartBeats == 2

\* a beat by its duration byte and whether it has a note
StartBeats == [b : {0, 8}, note : BOOLEAN]

StartScripts == UNION {[1..n -> StartBeats] : n \in 0..MaxStartBeats}

\* the bytes of a beat of StartBeats: the note is fret 5 on string 3
StartBeatBytes(x) ==
    NoteBeat(x.b, IF x.note THEN 16 ELSE 0, IF x.note THEN NoteBytes(1, 5) ELSE <<>>)

StartVoiceBytes(v) == Flatten([k \in 1..Len(v) |-> StartBeatBytes(v[k])])

InitStart ==
    /\ \E v0 \in StartScripts, v1 \in StartScripts :
        /\ FileBuffer = LE32(Len(v0)) \o StartVoiceBytes(v0)
                          \o LE32(Len(v1)) \o StartVoiceBytes(v1)
        /\ last = [op |-> "none", pre |-> 0, arg |-> [voices |-> <<v0, v1>>],
                   st |-> "ok", v |-> 0]
    /\ BufferPosition = 0
    /\ VersionIndex = 0
    /\ Channels = <<>>
    /\ Tracks = <<GuitarTrack>>

\* measure := Measure{Start: start}; p.readMeasure(&measure, &track, &tempo, 0)
DecodeMeasure ==
    /\ last.op = "none"
    /\ \E start \in MeasureStarts :
         \E r \in {readMeasure(FileBuffer, BufferPosition, VersionIndex, Channels,
                               NewMeasure(start), Tracks[1], 120, 0)} :
            /\ BufferPosition' = r.pos
            /\ Tracks' = <<[Tracks[1] EXCEPT !.Measures = Append(@, r.measure)]>>
            /\ last' = [op |-> "readMeasure", pre |-> BufferPosition,
                        arg |-> [voices |-> last.arg.voices, start |-> start],
                        st |-> r.st,
                        v |-> [read |-> r.read, decoded |-> r.decoded,
                               tempo |-> r.tempo]]
    /\ UNCHANGED <<FileBuffer, VersionIndex, Channels>>

NextStart == DecodeMeasure

SpecStart == InitStart /\ [][NextStart]_vars

\* the duration readBeat returns for a beat of StartBeats, in 1/4096 ticks:
\* 960*4 / (2^(b+4)/4) with a note, 0 without
Returned(x) == IF x.note THEN (3840 * 4096) \div Pow2(x.b + 2) ELSE 0

RECURSIVE SumReturned(_, _)
\* the sum of the durations returned by the first k beats of a voice
SumReturned(v, k) == IF k = 0 THEN 0 ELSE SumReturned(v, k - 1) + Returned(v[k])

\* the beat entries of the measure as the voices left them whose Start,
\* in 1/4096 ticks, is t
EntriesAt(t) ==
    {i \in 1..Len(last.v.read) : last.v.read[i].Start * 4096 = t}

EntriesAtInt32(t) ==
    {i \in 1..Len(last.v.read) : last.v.read[i].Start = t \div 4096}

----------------------------------------------------------------------------
(* Further claims about tied notes                                         *)

\* the places <<measure, beat, voice, note>> of the notes on a string in
\* the voices of a track that are not marked empty
NotesOnString(track, guitarString) ==
    {q \in (1..Len(track.Measures)) \X (1..3) \X (1..2) \X (1..7) :
        /\ q[2] <= Len(track.Measures[q[1]].Beats)
        /\ ~track.Measures[q[1]].Beats[q[2]].Voices[q[3]].Empty
        /\ q[4] <= Len(track.Measures[q[1]].Beats[q[2]].Voices[q[3]].Notes)
        /\ track.Measures[q[1]].Beats[q[2]].Voices[q[3]].Notes[q[4]].String
              = guitarString}

\* p comes before q in the search: a later measure, then a later beat,
\* then an earlier voice, then a later note
SearchedBefore(p, q) ==
    \/ p[1] > q[1]
    \/ p[1] = q[1] /\ p[2] > q[2]
    \/ p[1] = q[1] /\ p[2] = q[2] /\ p[3] < q[3]
    \/ p[1] = q[1] /\ p[2] = q[2] /\ p[3] = q[3] /\ p[4] > q[4]

NoteAt(track, q) == track.Measures[q[1]].Beats[q[2]].Voices[q[3]].Notes[q[4]]

\* the value of the first of the places in the search, 0 when there is none
FirstValue(track, places) ==
    IF places = {} THEN 0
    ELSE NoteAt(track, CHOOSE p \in places :
                          \A q \in places \ {p} : SearchedBefore(p, q)).Value

\* C26: for a tied note readNote takes from getTiedNoteValue the fret value
\* of the most recent note on the string in a voice not marked empty, tied
\* or not, and 0 only when there is no such note.
C26_TiedNoteSearch ==
    (last.op = "readNote" /\ last.st = "ok" /\ last.v.note.TiedNote) =>
        /\ last.v.note.Value =
               FirstValue(Tracks[1], NotesOnString(Tracks[1], last.arg.string))
        /\ getTiedNoteValue(last.arg.string, Tracks[1]) =
               FirstValue(Tracks[1], NotesOnString(Tracks[1], last.arg.string))

\* the search of getTiedNoteValue: the most recent note on the string that
\* is itself tied
C26_SearchOfTiedNotes ==
    (last.op = "readNote" /\ last.st = "ok" /\ last.v.note.TiedNote) =>
        last.v.note.Value =
            FirstValue(Tracks[1],
                       {q \in NotesOnString(Tracks[1], last.arg.string) :
                           NoteAt(Tracks[1], q).TiedNote})

----------------------------------------------------------------------------
(* Further claims about the string decoders                                *)

StringDecoders ==
    {"readString", "readStringByte", "readStringByteSizeOfInteger",
     "readStringInteger", "readLongString"}

\* C28: the length-prefixed string decoders return a string or an error on
\* every buffer and never read a negative length or outside the buffer,
\* readStringInteger with a negative 4-byte length included.
C28_NoDecoderFaults ==
    last.op \in StringDecoders => last.st \in {"ok", "err"}

\* the 4-byte length at the offset the last call started from is there and
\* is negative
NegativeLength ==
    /\ last.pre >= 0
    /\ last.pre + 4 <= Len(FileBuffer)
    /\ FileBuffer[last.pre + 4] >= 128

\* where readStringInteger faults: on every negative 4-byte length, in the
\* slice expression of readString, and nowhere else
C28_FaultOnNegativeLength ==
    last.op = "readStringInteger" => (last.st = "panic" <=> NegativeLength)

----------------------------------------------------------------------------
(* Further claims about the pruning                                        *)

HasNotes(beat) == ~IsEmptyBeat(beat)

\* C29: when readMeasure returns after decoding both voices of a measure
\* that had no beats, every beat with a note in some voice is still in
\* measure.Beats, once, with its notes unchanged, and these beats are in the
\* order in which they were created.
C29_PruningKeepsBeatsWithNotes ==
    (last.op = "readMeasure" /\ last.st = "ok") =>
        SelectSeq(LastMeasure.Beats, HasNotes) = SelectSeq(last.v.read, HasNotes)

\* C29 witness: readMeasure has pruned an empty beat that stood between two
\* beats with notes
C29_Witness ==
    /\ last.op = "readMeasure"
    /\ last.st = "ok"
    /\ Len(last.v.read) = 3
    /\ HasNotes(last.v.read[1])
    /\ ~HasNotes(last.v.read[2])
    /\ HasNotes(last.v.read[3])
    /\ LastMeasure.Beats = <<last.v.read[1], last.v.read[3]>>

----------------------------------------------------------------------------
(* Further claims about the two header decoders                            *)

\* the parser NewParser makes of the file LoadHeader has read
FullPath == NewParser(TRUE, FileBuffer)

\* LoadHeader has succeeded on a file that starts with "FICHIER GUITAR PRO
\* v5.00" or "FICHIER GUITAR PRO v5.10", and so does NewParser
BothSucceed ==
    /\ last.op = "LoadHeader"
    /\ last.st = "ok"
    /\ last.v.headerlen = 19
    /\ \E i \in 1..Len(VERSIONS) : HasPrefix(Tail(FileBuffer), VERSIONS[i])
    /\ FullPath.parser

\* C30: on a file with a supported v5 signature on which NewParser and
\* uncompressedGpInfo both succeed, both have the same Title, the same
\* Subtitle and the same Artist.
C30_HeaderDecodersAgree ==
    BothSucceed =>
        /\ FullPath.fields["Title"] = last.v.fields["Title"]
        /\ FullPath.fields["Subtitle"] = last.v.fields["Subtitle"]
        /\ FullPath.fields["Artist"] = last.v.fields["Artist"]

====
